---- MODULE Spec2Model ----
(***************************************************************************)
(* SWAXSanalysis (saxs_nxformat): the result-group lifecycle of a NeXus    *)
(* container (save_data, replace_h5_dataset, delete_data, create_process), *)
(* the NexusFile manager that drives it, the default radial minimum of the *)
(* radial/azimuthal average and the metadata extraction extract_smi_param. *)
(*                                                                         *)
(* Strings that the code transforms (group names, detector names) are      *)
(* sequences of one-character strings, so that str.upper, str.lower,       *)
(* str.removeprefix and the regular-expression search are computed.        *)
(* Arrays are records [shape, val]: the numpy shape and a token standing   *)
(* for the contents.                                                       *)
(***************************************************************************)
EXTENDS Integers, Sequences, FiniteSets, TLC

VARIABLES
    containers,   \* containers[p]: the /ENTRY subtree of the HDF5 file at path p
    mgr,          \* the attributes of the NexusFile object
    nops,         \* number of operations called so far
    last,         \* the last operation: its arguments, outcome and pre-state
    calc          \* input and output of the last pure computation

vars == <<containers, mgr, nops, last, calc>>

(***************************************************************************)
(* Bounds of the model.                                                    *)
(***************************************************************************)
NFiles == 2
MaxOps == 3

Paths == 1..NFiles

(***************************************************************************)
(* Strings as character sequences.                                         *)
(***************************************************************************)
LowerLetters == <<"a", "b", "c", "d", "e", "f", "g", "h", "i", "j", "k", "l", "m",
                  "n", "o", "p", "q", "r", "s", "t", "u", "v", "w", "x", "y", "z">>
UpperLetters == <<"A", "B", "C", "D", "E", "F", "G", "H", "I", "J", "K", "L", "M",
                  "N", "O", "P", "Q", "R", "S", "T", "U", "V", "W", "X", "Y", "Z">>

LetterIndex(letters, ch) ==
    IF \E i \in 1..Len(letters) : letters[i] = ch
    THEN CHOOSE i \in 1..Len(letters) : letters[i] = ch
    ELSE 0

\* str.upper()
upper(s) ==
    [i \in 1..Len(s) |->
        IF LetterIndex(LowerLetters, s[i]) # 0
        THEN UpperLetters[LetterIndex(LowerLetters, s[i])]
        ELSE s[i]]

\* str.lower()
lower(s) ==
    [i \in 1..Len(s) |->
        IF LetterIndex(UpperLetters, s[i]) # 0
        THEN LowerLetters[LetterIndex(UpperLetters, s[i])]
        ELSE s[i]]

\* str.startswith(prefix)
startswith(s, prefix) ==
    /\ Len(prefix) <= Len(s)
    /\ SubSeq(s, 1, Len(prefix)) = prefix

\* str.removeprefix(prefix)
removeprefix(s, prefix) ==
    IF startswith(s, prefix) THEN SubSeq(s, Len(prefix) + 1, Len(s)) ELSE s

\* needle in s
contains(s, needle) ==
    \E i \in 1..(Len(s) - Len(needle) + 1) :
        SubSeq(s, i, i + Len(needle) - 1) = needle

N_DATA == <<"D", "A", "T", "A">>
N_DATA_X == <<"D", "A", "T", "A", "_", "X">>
n_data_x == <<"d", "a", "t", "a", "_", "x">>
N_DATA_PREFIX == <<"D", "A", "T", "A", "_">>
N_PROCESS_PREFIX == <<"P", "R", "O", "C", "E", "S", "S", "_">>

\* the group names passed by callers
GroupNameInputs == {N_DATA, N_DATA_X, n_data_x}

(***************************************************************************)
(* Functions with a varying domain (python dicts, HDF5 groups).            *)
(***************************************************************************)
Put(fn, k, v) == [x \in (DOMAIN fn) \cup {k} |-> IF x = k THEN v ELSE fn[x]]
Drop(fn, k) == [x \in (DOMAIN fn) \ {k} |-> fn[x]]

(***************************************************************************)
(* Arrays and payloads.                                                    *)
(***************************************************************************)
Array(shape, val) == [shape |-> shape, val |-> val]
ndim(a) == Len(a.shape)
\* np.zeros(np.shape(a))
zeros_like(a) == Array(a.shape, "0")
\* np.array([0])
ZeroVector == Array(<<1>>, "0")

\* a 1D reduction result (radial/azimuthal average, horizontal/vertical cut)
Result1D == [P |-> Array(<<3>>, "p1"), I |-> Array(<<3>>, "i1")]
\* a 2D reduction result (q-space image, cake): P is 2 x H x W
Result2D == [P |-> Array(<<2, 2, 2>>, "p2"), I |-> Array(<<2, 2>>, "i2")]
\* a mask handed to save_data, 1 x H x W: the mask of a geometry session that
\* has not been given the mask of a container, or the mask a caller passes
MaskArray == Array(<<1, 2, 2>>, "m1")

\* (parameter_symbol, result) pairs the callers of save_data use
SaveInputs == {<<"Q", Result1D>>, <<"Q", Result2D>>, <<"Chi", Result1D>>}

(***************************************************************************)
(* The container: a function from the names of the groups under /ENTRY to  *)
(* groups [attrs, ds]; ds maps a child name to a dataset [data, attrs].    *)
(***************************************************************************)
Dataset(data, attrs) == [data |-> data, attrs |-> attrs]
Units(u) == [a \in {"units"} |-> u]
EmptyGroup == [attrs |-> <<>>, ds |-> <<>>]

\* a group attribute value: a scalar (shape <<>>) or a one-dimensional list
AttrScalar(v) == [shape |-> <<>>, val |-> <<v>>]
AttrList(vs) == [shape |-> <<Len(vs)>>, val |-> vs]

Ok(c) == [c |-> c, err |-> "none"]
Raise(c, e) == [c |-> c, err |-> e]

\* path in hdf5_file, for a dataset path /ENTRY/<g>/<d>
h5_has_dataset(c, g, d) == g \in DOMAIN c /\ d \in DOMAIN c[g].ds

\* hdf5_file.create_dataset(/ENTRY/<g>/<d>, data=...), then its attributes set;
\* h5py creates the missing intermediate group and refuses an existing name
h5_create_dataset(c, g, d, data, attrs) ==
    IF h5_has_dataset(c, g, d)
    THEN Raise(c, "ValueError")
    ELSE LET grp == IF g \in DOMAIN c THEN c[g] ELSE EmptyGroup
         IN Ok(Put(c, g, [grp EXCEPT !.ds = Put(@, d, Dataset(data, attrs))]))

\* del hdf5_file[/ENTRY/<g>/<d>]
h5_del_dataset(r, g, d) ==
    IF r.err # "none" THEN r
    ELSE IF ~h5_has_dataset(r.c, g, d) THEN Raise(r.c, "KeyError")
    ELSE Ok([r.c EXCEPT ![g].ds = Drop(@, d)])

\* nx_file.copy("ENTRY/DATA", nx_file["/ENTRY"], group_name)
h5_copy(c, src, dst) ==
    IF src \notin DOMAIN c THEN Raise(c, "KeyError")
    ELSE IF dst \in DOMAIN c THEN Raise(c, "ValueError")
    ELSE Ok(Put(c, dst, c[src]))

\* del group.attrs[a]; group.attrs[a] = v
h5_del_set_attr(r, g, a, v) ==
    IF r.err # "none" THEN r
    ELSE IF a \notin DOMAIN r.c[g].attrs THEN Raise(r.c, "KeyError")
    ELSE Ok([r.c EXCEPT ![g].attrs = Put(@, a, v)])

(***************************************************************************)
(* utils.replace_h5_dataset; new_d = "" stands for new_dataset_h5path=None *)
(***************************************************************************)
replace_h5_dataset(r, g, d, new_dataset, new_d) ==
    IF r.err # "none" THEN r
    ELSE LET found == h5_has_dataset(r.c, g, d)
             attributes == IF found THEN r.c[g].ds[d].attrs ELSE Units("1/nm")
             c1 == IF found THEN [r.c EXCEPT ![g].ds = Drop(@, d)] ELSE r.c
             target == IF new_d # "" THEN new_d ELSE d
         IN h5_create_dataset(c1, g, target, new_dataset, attributes)

(***************************************************************************)
(* utils.save_data                                                         *)
(***************************************************************************)
\* variant: the group of the previous result is left in place
save_data_keep_old(c, group_name) == c

\* "if it exists we delete what was previously there"
save_data_delete_old(c, group_name) ==
    IF group_name \in DOMAIN c /\ group_name # N_DATA
    THEN Drop(c, group_name)
    ELSE c

\* variant: the raw data is moved to the name selected
save_data_move_raw(c, group_name) ==
    IF group_name = N_DATA THEN Ok(c)
    ELSE IF N_DATA \notin DOMAIN c THEN Raise(c, "KeyError")
    ELSE IF group_name \in DOMAIN c THEN Raise(c, "ValueError")
    ELSE Ok(Drop(Put(c, group_name, c[N_DATA]), N_DATA))

\* "we copy the raw data and set the copied data to the name selected"
save_data_copy_raw(c, group_name) ==
    IF group_name # N_DATA THEN h5_copy(c, N_DATA, group_name) ELSE Ok(c)

\* variant: the two branches exchanged
save_data_layout_swapped(r, g) ==
    IF r.err # "none" THEN r
    ELSE LET dim == ndim(r.c[g].ds["I"].data)
         IN IF dim = 2
            THEN h5_del_set_attr(
                   h5_del_set_attr(
                     h5_del_set_attr(h5_del_dataset(r, g, "mask"),
                                     g, "I_axes", AttrScalar("Q")),
                     g, "Q_indices", AttrList(<<0>>)),
                   g, "mask_indices", AttrList(<<0>>))
            ELSE IF dim = 1
            THEN h5_del_dataset(h5_del_dataset(h5_del_dataset(r,
                     g, "Qdev"), g, "dQl"), g, "dQw")
            ELSE r

\* variant: the branch is taken on the rank of the coordinate array
save_data_layout_by_parameter(r, g) ==
    IF r.err # "none" THEN r
    ELSE LET dim == ndim(r.c[g].ds["Qdev"].data)
         IN IF dim = 1
            THEN h5_del_set_attr(
                   h5_del_set_attr(
                     h5_del_set_attr(h5_del_dataset(r, g, "mask"),
                                     g, "I_axes", AttrScalar("Q")),
                     g, "Q_indices", AttrList(<<0>>)),
                   g, "mask_indices", AttrList(<<0>>))
            ELSE IF dim = 2
            THEN h5_del_dataset(h5_del_dataset(h5_del_dataset(r,
                     g, "Qdev"), g, "dQl"), g, "dQw")
            ELSE r

\* the rank-dependent layout
save_data_layout(r, g) ==
    IF r.err # "none" THEN r
    ELSE LET dim == ndim(r.c[g].ds["I"].data)
         IN IF dim = 1
            THEN h5_del_set_attr(
                   h5_del_set_attr(
                     h5_del_set_attr(h5_del_dataset(r, g, "mask"),
                                     g, "I_axes", AttrScalar("Q")),
                     g, "Q_indices", AttrList(<<0>>)),
                   g, "mask_indices", AttrList(<<0>>))
            ELSE IF dim = 2
            THEN h5_del_dataset(h5_del_dataset(h5_del_dataset(r,
                     g, "Qdev"), g, "dQl"), g, "dQw")
            ELSE r

save_data(nx_file, parameter_symbol, parameter_data, group_name0, value_data, mask) ==
    LET group_name == upper(group_name0)
        r0 == save_data_copy_raw(save_data_delete_old(nx_file, group_name), group_name)
        r1 == replace_h5_dataset(r0, group_name, "Q", parameter_data, parameter_symbol)
        r2 == replace_h5_dataset(r1, group_name, "Qdev", zeros_like(parameter_data), "")
        r3 == replace_h5_dataset(r2, group_name, "dQl", zeros_like(parameter_data), "")
        r4 == replace_h5_dataset(r3, group_name, "dQw", zeros_like(parameter_data), "")
        r5 == replace_h5_dataset(r4, group_name, "Qmean", ZeroVector, "")
        r6 == replace_h5_dataset(r5, group_name, "I", value_data, "")
        r7 == replace_h5_dataset(r6, group_name, "Idev", zeros_like(value_data), "")
        r8 == replace_h5_dataset(r7, group_name, "mask", mask, "")
    IN save_data_layout(r8, group_name)

(***************************************************************************)
(* The files a manager is given.  generate_nexus fills a new file from the *)
(* settings (fill_hdf5), computes the frame (data_treatment) and calls     *)
(* save_data(save_file, "DATA", "Q", R_data, I_data, mask): the arguments  *)
(* are not in the order of the signature, the group name is bound to the   *)
(* array R_data and save_data raises AttributeError at group_name.upper()  *)
(* before it writes.  The exception leaves the with statement, the three   *)
(* attribute assignments that follow the call are not reached, and the     *)
(* file is left as fill_hdf5 wrote it: /ENTRY/DATA holds its attributes    *)
(* and no dataset.                                                         *)
(***************************************************************************)
\* data_treatment: the position grid, the frame and its mask
RawFrame == [R_data |-> Array(<<2, 2, 2>>, "r0"),
             I_data |-> Array(<<2, 2>>, "i0"),
             mask |-> Array(<<1, 2, 2>>, "m0")]

\* /ENTRY/DATA of the file generate_nexus leaves: the group and its
\* attributes as fill_hdf5 wrote them, no dataset
RawDataGroup ==
    [attrs |-> [a \in {"canSAS_class", "I_axes", "Q_indices", "mask_indices"} |->
                   CASE a = "canSAS_class" -> AttrScalar("SASdata")
                     [] a = "I_axes" -> AttrScalar("Q")
                     [] a = "Q_indices" -> AttrScalar(0)
                     [] a = "mask_indices" -> AttrScalar(0)],
     ds |-> <<>>]

N_SOURCE == <<"I", "N", "S", "T", "R", "U", "M", "E", "N", "T", "/", "S", "O", "U", "R", "C", "E">>
N_DETECTOR == <<"I", "N", "S", "T", "R", "U", "M", "E", "N", "T", "/", "D", "E", "T", "E", "C", "T", "O", "R">>
N_SAMPLE == <<"S", "A", "M", "P", "L", "E">>
N_COLLECTION == <<"C", "O", "L", "L", "E", "C", "T", "I", "O", "N">>

DetectorName1M == <<"D", "e", "c", "t", "r", "i", "s", " ", "E", "I", "G", "E", "R", "2", " ", "S", "i", " ", "1", "M", ",", " ", "S", "/", "N", " ", "E", "-", "0", "2", "-", "0", "2", "9", "9">>

Scalar(v) == Dataset(Array(<<>>, v), <<>>)

\* the groups of the settings that the manager reads, put next to the groups of
\* data: the source, the sample, the detector and the collection
InstrumentedContainer(data, name, yaw, pitch, roll) ==
    Put(Put(Put(Put(data,
        N_SOURCE, [attrs |-> <<>>,
                   ds |-> Put(Put(Put(<<>>,
                          "incident_wavelength", Scalar(1)),
                          "beam_size_x", Scalar(1)),
                          "beam_size_y", Scalar(2))]),
        N_SAMPLE, [attrs |-> <<>>,
                   ds |-> Put(Put(Put(<<>>, "name", Scalar("sample")),
                          "yaw", Scalar(0)), "thickness", Scalar(1))]),
        N_DETECTOR, [attrs |-> <<>>,
                     ds |-> Put(Put(Put(Put(Put(Put(Put(Put(Put(<<>>,
                            "name", Scalar(name)),
                            "yaw", Scalar(yaw)),
                            "pitch", Scalar(pitch)),
                            "roll", Scalar(roll)),
                            "beam_center_x", Scalar(3)),
                            "beam_center_y", Scalar(4)),
                            "x_pixel_size", Scalar(1)),
                            "y_pixel_size", Scalar(1)),
                            "SDD", Scalar(2))]),
        N_COLLECTION, [attrs |-> <<>>,
                       ds |-> Put(<<>>, "do_absolute_intensity", Scalar(0))])

\* the file of an Eiger 1M that generate_nexus leaves, as a manager opens it
InitContainer ==
    InstrumentedContainer([g \in {N_DATA} |-> RawDataGroup], DetectorName1M, 0, 0, 0)

\* that file once a client has stored the frame of data_treatment in it:
\* save_data(nx_file, "Q", R_data, "DATA", I_data, mask)
FramedContainer ==
    save_data(InitContainer, "Q", RawFrame.R_data, N_DATA, RawFrame.I_data,
              RawFrame.mask).c

\* the files a session starts from, every file of the session alike
StartContainers == {InitContainer, FramedContainer}

(***************************************************************************)
(* utils.delete_data                                                       *)
(***************************************************************************)
\* variant: the name is looked up as passed
delete_data_exact_case(nx_file, group_name0) ==
    IF group_name0 \in DOMAIN nx_file THEN Drop(nx_file, group_name0) ELSE nx_file

delete_data(nx_file, group_name0) ==
    LET group_name == upper(group_name0)
    IN IF group_name \in DOMAIN nx_file THEN Drop(nx_file, group_name) ELSE nx_file

(***************************************************************************)
(* class_nexus_file.create_process                                         *)
(***************************************************************************)
ProcessGroup(process_name, process_desc) ==
    [attrs |-> [a \in {"canSAS_class"} |-> AttrScalar("SASprocess")],
     ds |-> [d \in {"name", "description"} |->
                IF d = "name"
                THEN Dataset(Array(<<>>, process_name), <<>>)
                ELSE Dataset(Array(<<>>, process_desc), <<>>)]]

\* variant: an existing group at the path is left as it is
create_process_keep_old(hdf5_file, group_h5path, process_name, process_desc) ==
    IF group_h5path \in DOMAIN hdf5_file
    THEN hdf5_file
    ELSE Put(hdf5_file, group_h5path, ProcessGroup(process_name, process_desc))

create_process(hdf5_file, group_h5path, process_name, process_desc) ==
    LET c1 == IF group_h5path \in DOMAIN hdf5_file
              THEN Drop(hdf5_file, group_h5path)
              ELSE hdf5_file
    IN Put(c1, group_h5path, ProcessGroup(process_name, process_desc))

\* f"/ENTRY/PROCESS_{group_name.removeprefix('DATA_')}"
process_group_path(group_name) ==
    N_PROCESS_PREFIX \o removeprefix(group_name, N_DATA_PREFIX)

(***************************************************************************)
(* extract_from_h5 (its definition is not part of the available sources):  *)
(* a scalar dataset is read as a scalar, an array dataset as a full array. *)
(***************************************************************************)
NoneValue == Array(<<>>, "None")

extract_from_h5(nx_file, g, d) ==
    IF ~h5_has_dataset(nx_file, g, d) THEN [err |-> "KeyError", v |-> NoneValue]
    ELSE [err |-> "none", v |-> nx_file[g].ds[d].data]

(***************************************************************************)
(* The NexusFile object.  __init__ assigns file_paths, init_plot, fig, ax, *)
(* do_batch, input_data_group and nx_files, and nothing else: an attribute *)
(* that was never assigned has set = FALSE and reading it raises           *)
(* AttributeError.                                                         *)
(***************************************************************************)
Unset == [set |-> FALSE, v |-> <<>>]
Attr(v) == [set |-> TRUE, v |-> v]

\* a path of the list passed to the constructor: the file it leads to, its
\* final component Path(path).name and its python type
PathObj(file, name, type) == [file |-> file, name |-> name, type |-> type]

NexusFile_init(h5_paths) ==
    [file_paths |-> h5_paths,
     init_plot |-> TRUE,
     do_batch |-> FALSE,
     input_data_group |-> N_DATA,
     nx_files |-> [i \in DOMAIN h5_paths |-> h5_paths[i].file],
     dicts_parameters |-> Unset,
     list_smi_data |-> Unset,
     intensities_data |-> Unset]

\* the files of the session under names of their own
AllPaths == [i \in 1..NFiles |-> PathObj(i, i, "str")]

\* the files of the session under one name, each in a directory of its own
SameNamePaths == [i \in 1..NFiles |-> PathObj(i, 1, "str")]

\* NexusFile.get_raw_data: the two dicts, keyed by the name of the file; a
\* file whose name is already a key replaces the entry
get_raw_data(cs, m, group_name) ==
    LET idx == 1..Len(m.nx_files)
        nxfile(i) == cs[m.nx_files[i]]
        file_name(i) == m.file_paths[i].name
        present(i) == group_name \in DOMAIN nxfile(i)
        value(i) == extract_from_h5(nxfile(i), group_name, "I")
        param(i) ==
            IF h5_has_dataset(nxfile(i), group_name, "R")
            THEN extract_from_h5(nxfile(i), group_name, "R").v
            ELSE IF h5_has_dataset(nxfile(i), group_name, "Q")
            THEN extract_from_h5(nxfile(i), group_name, "Q").v
            ELSE IF h5_has_dataset(nxfile(i), group_name, "Chi")
            THEN extract_from_h5(nxfile(i), group_name, "Chi").v
            ELSE NoneValue
        \* the file that assigned the key last
        writer(name, among) ==
            CHOOSE i \in among :
                /\ file_name(i) = name
                /\ \A j \in among : file_name(j) = name => j <= i
        failed(i) == \/ i > Len(m.file_paths)
                     \/ present(i) /\ value(i).err # "none"
        first == CHOOSE i \in idx : failed(i) /\ \A j \in 1..(i - 1) : ~failed(j)
    IN IF \E i \in idx : failed(i)
       THEN [err |-> IF first > Len(m.file_paths) THEN "IndexError" ELSE "KeyError",
             param |-> <<>>, value |-> <<>>]
       ELSE [err |-> "none",
             param |-> [n \in {file_name(i) : i \in idx} |->
                           param(writer(n, idx))],
             value |-> [n \in {file_name(i) : i \in {j \in idx : present(j)}} |->
                           value(writer(n, {j \in idx : present(j)})).v]]

\* NexusFile.process_delete_data
process_delete_data(cs, m, group_name) ==
    [p \in DOMAIN cs |->
        IF \E i \in 1..Len(m.nx_files) : m.nx_files[i] = p
        THEN delete_data(cs[p], group_name)
        ELSE cs[p]]

(***************************************************************************)
(* The default radial minimum of process_radial_average and                *)
(* process_azimuthal_average.  The value sqrt(x) is represented by x, its  *)
(* square, so that the computation stays in the integers.                  *)
(***************************************************************************)
abs(x) == IF x < 0 THEN 0 - x ELSE x
\* np.sign
sign(x) == IF x < 0 THEN 0 - 1 ELSE IF x > 0 THEN 1 ELSE 0

RECURSIVE sum_sign(_, _)
sum_sign(a, n) == IF n = 0 THEN 0 ELSE sign(a[n]) + sum_sign(a, n - 1)

\* min(np.abs(a)), max(np.abs(a))
min_abs(a) == CHOOSE m \in {abs(a[i]) : i \in 1..Len(a)} :
                  \A i \in 1..Len(a) : m <= abs(a[i])
max_abs(a) == CHOOSE m \in {abs(a[i]) : i \in 1..Len(a)} :
                  \A i \in 1..Len(a) : m >= abs(a[i])

\* process_radial_average: default_r_min, squared
radial_default_r_min_sq(qp, qz) ==
    IF sum_sign(qp, Len(qp)) + sum_sign(qz, Len(qz)) = 0
    THEN 0
    ELSE IF sign(qp[Len(qp)]) = sign(qp[1])
    THEN min_abs(qz) * min_abs(qz)
    ELSE IF sign(qz[Len(qz)]) = sign(qz[1])
    THEN min_abs(qp) * min_abs(qp)
    ELSE min_abs(qp) * min_abs(qp) + min_abs(qz) * min_abs(qz)

\* process_azimuthal_average: the same branches, assigned to r_min
azimuthal_default_r_min_sq(qp, qz) ==
    IF sum_sign(qp, Len(qp)) + sum_sign(qz, Len(qz)) = 0
    THEN 0
    ELSE IF sign(qp[Len(qp)]) = sign(qp[1])
    THEN min_abs(qz) * min_abs(qz)
    ELSE IF sign(qz[Len(qz)]) = sign(qz[1])
    THEN min_abs(qp) * min_abs(qp)
    ELSE min_abs(qp) * min_abs(qp) + min_abs(qz) * min_abs(qz)

\* defaults["r_max"], squared
default_r_max_sq(qp, qz) == max_abs(qp) * max_abs(qp) + max_abs(qz) * max_abs(qz)

(***************************************************************************)
(* extract_smi_param: the parameter record read from one container.        *)
(* A product x * 10^e is kept as the pair [value |-> x, exp10 |-> e].      *)
(***************************************************************************)
K_dectris == <<"d", "e", "c", "t", "r", "i", "s">>
K_eiger2 == <<"e", "i", "g", "e", "r", "2">>
K_1m == <<"1", "m">>
K_500k == <<"5", "0", "0", "k">>

DetectorNames == {DetectorName1M,
                  <<"D", "e", "c", "t", "r", "i", "s", " ", "E", "i", "g", "e", "r", "2", " ", "R", " ", "5", "0", "0", "K">>,
                  <<"d", "e", "c", "t", "r", "i", "s", " ", "e", "i", "g", "e", "r", "2", " ", "1", "M", " ", "5", "0", "0", "k">>,
                  <<"P", "i", "l", "a", "t", "u", "s", "3", " ", "3", "0", "0", "K">>,
                  <<"E", "I", "G", "E", "R", "2", " ", "1", "M">>,
                  <<"D", "e", "c", "t", "r", "i", "s", "\n", "E", "I", "G", "E", "R", "2", " ", "1", "M">>,
                  <<"x", "\n", "D", "e", "c", "t", "r", "i", "s", " ", "E", "i", "g", "e", "r", "2", " ", "5", "0", "0", "K">>}

AngleValues == {0 - 1, 0, 2}

Scaled(x, e) == [value |-> x, exp10 |-> e]

\* re.search of a pattern made of lookaheads "(?=.*k)", one for each keyword:
\* all of them are tried at one position of the string, and "." matches no
\* line break, so every keyword has to be found from that position on before
\* the end of its line
search_lookaheads(s, keywords) ==
    \E p \in 1..(Len(s) + 1) :
        \A k \in keywords :
            \E i \in p..(Len(s) - Len(k) + 1) :
                /\ SubSeq(s, i, i + Len(k) - 1) = k
                /\ \A j \in p..(i - 1) : s[j] # "\n"

\* re.search("(?i)(?=.*dectris)(?i)(?=.*eiger2)(?i)(?=.*1m)", name.lower())
is_eiger1m(detector_name) ==
    search_lookaheads(lower(detector_name), {K_dectris, K_eiger2, K_1m})

\* re.search("(?i)(?=.*dectris)(?i)(?=.*eiger2)(?i)(?=.*500k)", name.lower())
is_eiger500k(detector_name) ==
    search_lookaheads(lower(detector_name), {K_dectris, K_eiger2, K_500k})

\* rotation_1, rotation_2, rotation_3 of the Eiger 500k branch
detector_rotation_500k(h5obj) ==
    <<0 - extract_from_h5(h5obj, N_DETECTOR, "yaw").v.val,
      extract_from_h5(h5obj, N_DETECTOR, "pitch").v.val,
      0 - extract_from_h5(h5obj, N_DETECTOR, "roll").v.val>>

\* the two detector branches, applied in the order of the source
detector_fields(dict_parameters, h5obj, detector_name) ==
    LET d1 == IF is_eiger1m(detector_name)
              THEN Put(Put(dict_parameters, "detector name", "Eiger1M_xeuss"),
                       "detector rotation", <<<<0, 0, 0>>>>)
              ELSE dict_parameters
    IN IF is_eiger500k(detector_name)
       THEN Put(Put(d1, "detector name", "Eiger500k_xeuss"),
                "detector rotation", <<detector_rotation_500k(h5obj)>>)
       ELSE d1

\* inline_flags_ok: whether the interpreter's re module accepts a global
\* flag "(?i)" that is not at the start of the pattern
extract_smi_param(h5obj, input_data_group, inline_flags_ok) ==
    LET missing(g, d) == extract_from_h5(h5obj, g, d).err # "none"
    IN
    IF \/ ~h5_has_dataset(h5obj, input_data_group, "I")
       \/ ~h5_has_dataset(h5obj, input_data_group, "Q")
       \/ missing(N_SOURCE, "incident_wavelength")
       \/ missing(N_SAMPLE, "yaw")
       \/ missing(N_DETECTOR, "name")
    THEN [err |-> "KeyError", dict |-> <<>>]
    ELSE IF ~inline_flags_ok
    THEN [err |-> "re.error", dict |-> <<>>]
    ELSE IF \/ /\ is_eiger500k(extract_from_h5(h5obj, N_DETECTOR, "name").v.val)
                /\ \/ missing(N_DETECTOR, "yaw")
                   \/ missing(N_DETECTOR, "pitch")
                   \/ missing(N_DETECTOR, "roll")
            \/ missing(N_DETECTOR, "beam_center_x")
            \/ missing(N_DETECTOR, "beam_center_y")
            \/ missing(N_DETECTOR, "SDD")
    THEN [err |-> "KeyError", dict |-> <<>>]
    ELSE
    LET d0 == Put(<<>>, "beam stop", <<<<0, 0>>>>)
        d1 == Put(d0, "I raw data", <<h5obj[input_data_group].ds["I"].data>>)
        d2 == Put(d1, "R raw data", <<h5obj[input_data_group].ds["Q"].data>>)
        d3 == Put(d2, "wavelength",
                  Scaled(extract_from_h5(h5obj, N_SOURCE, "incident_wavelength").v.val,
                         0 - 9))
        d4 == Put(d3, "incident angle", 0)
        d5 == detector_fields(d4, h5obj,
                              extract_from_h5(h5obj, N_DETECTOR, "name").v.val)
        d6 == Put(d5, "beam center",
                  <<extract_from_h5(h5obj, N_DETECTOR, "beam_center_x").v.val,
                    extract_from_h5(h5obj, N_DETECTOR, "beam_center_y").v.val>>)
        d7 == Put(d6, "distance",
                  Scaled(extract_from_h5(h5obj, N_DETECTOR, "SDD").v.val, 3))
    IN [err |-> "none", dict |-> d7]

(***************************************************************************)
(* The range parameters of the reduction operations: the values the loop   *)
(* passes to the geometry service and the values it writes into the        *)
(* description of the process group, file after file.  Sqrt(x) stands for  *)
(* the number sqrt(x), F4(v) for the text of v formatted with ".4f",       *)
(* Str(v) for the text of v formatted without a format specification.      *)
(***************************************************************************)
Num(x) == [kind |-> "num", x |-> x]
Sqrt(x) == [kind |-> "sqrt", x |-> x]
None == [kind |-> "None", x |-> 0]
F4(v) == [fmt |-> ".4f", v |-> v]
Str(v) == [fmt |-> "", v |-> v]

\* min(a), max(a) of an axis
min_of(a) == CHOOSE m \in {a[i] : i \in 1..Len(a)} : \A i \in 1..Len(a) : m <= a[i]
max_of(a) == CHOOSE m \in {a[i] : i \in 1..Len(a)} : \A i \in 1..Len(a) : m >= a[i]

RangeOps == {"process_caking", "process_radial_average", "process_azimuthal_average",
             "process_horizontal_integration", "process_vertical_integration"}

\* the range and point-count parameters in the signature of each operation
ParamsOf(op) ==
    CASE op = "process_caking" ->
           {"azi_min", "azi_max", "pts_azi", "radial_min", "radial_max", "pts_rad"}
      [] op = "process_radial_average" ->
           {"r_min", "r_max", "angle_min", "angle_max", "pts"}
      [] op = "process_azimuthal_average" ->
           {"r_min", "r_max", "npt_rad", "angle_min", "angle_max", "npt_azi"}
      [] op = "process_q_space" -> {}
      [] OTHER -> {"qx_min", "qx_max", "qy_min", "qy_max"}

\* initial_none_flags
none_flags(op, args) == [n \in ParamsOf(op) |-> args[n] = None]

\* "if initial_none_flags[n]: n = defaults[n]"
resolved(flags, locals, defaults) ==
    [n \in DOMAIN locals |-> IF flags[n] THEN defaults[n] ELSE locals[n]]

caking_defaults(qp, qz) ==
    [azi_min |-> Num(0 - 180), azi_max |-> Num(180),
     radial_min |-> Num(min_of(qz)), radial_max |-> Num(max_of(qz)),
     pts_azi |-> Num(1000), pts_rad |-> Num(1000)]

radial_defaults(qp, qz) ==
    [r_max |-> Sqrt(default_r_max_sq(qp, qz)),
     r_min |-> Sqrt(radial_default_r_min_sq(qp, qz)),
     angle_min |-> Num(0 - 180), angle_max |-> Num(180), pts |-> Num(2000)]

\* the local r_min after the branches that assign it
azimuthal_r_min_assigned(locals, qp, qz) ==
    [locals EXCEPT !.r_min = Sqrt(azimuthal_default_r_min_sq(qp, qz))]

azimuthal_defaults(locals, qp, qz) ==
    [r_max |-> Sqrt(default_r_max_sq(qp, qz)),
     r_min |-> locals.r_min,
     npt_rad |-> Num(500), angle_min |-> Num(0 - 180), angle_max |-> Num(180),
     npt_azi |-> Num(500)]

strip_defaults(qp, qz) ==
    [qx_min |-> Num(qp[1]), qx_max |-> Num(qp[Len(qp)]),
     qy_min |-> Num(qz[1]), qy_max |-> Num(qz[Len(qz)])]

\* the local variables of the loop body of op once the defaults are applied
locals_after_defaults(op, flags, locals, qp, qz) ==
    CASE op = "process_caking" -> resolved(flags, locals, caking_defaults(qp, qz))
      [] op = "process_radial_average" ->
           resolved(flags, locals, radial_defaults(qp, qz))
      [] op = "process_azimuthal_average" ->
           resolved(flags, azimuthal_r_min_assigned(locals, qp, qz),
                    azimuthal_defaults(azimuthal_r_min_assigned(locals, qp, qz),
                                       qp, qz))
      [] op = "process_q_space" -> locals
      [] OTHER -> resolved(flags, locals, strip_defaults(qp, qz))

\* the keyword arguments of the geometry-service call
service_call(op, l) ==
    CASE op = "process_caking" ->
           [azimuth_range |-> <<l.azi_min, l.azi_max>>,
            radial_range |-> <<l.radial_min, l.radial_max>>,
            npt_azim |-> l.pts_azi, npt_rad |-> l.pts_rad]
      [] op = "process_radial_average" ->
           [azimuth_range |-> <<l.angle_min, l.angle_max>>,
            npt |-> l.pts,
            radial_range |-> <<l.r_min, l.r_max>>]
      [] op = "process_azimuthal_average" ->
           [azimuth_range |-> <<l.angle_min, l.angle_max>>,
            npt_azim |-> l.npt_azi,
            radial_range |-> <<l.r_min, l.r_max>>,
            npt_rad |-> l.npt_rad]
      [] op = "process_q_space" -> <<>>
      [] OTHER ->
           [q_per_range |-> <<l.qy_min, l.qy_max>>,
            q_par_range |-> <<l.qx_min, l.qx_max>>]

\* the value the geometry-service call receives for the parameter n
service_argument(call, n) ==
    CASE n \in {"azi_min", "angle_min"} -> call.azimuth_range[1]
      [] n \in {"azi_max", "angle_max"} -> call.azimuth_range[2]
      [] n \in {"radial_min", "r_min"} -> call.radial_range[1]
      [] n \in {"radial_max", "r_max"} -> call.radial_range[2]
      [] n \in {"pts_azi", "npt_azi"} -> call.npt_azim
      [] n \in {"pts_rad", "npt_rad"} -> call.npt_rad
      [] n = "pts" -> call.npt
      [] n = "qx_min" -> call.q_par_range[1]
      [] n = "qx_max" -> call.q_par_range[2]
      [] n = "qy_min" -> call.q_per_range[1]
      [] OTHER -> call.q_per_range[2]

\* the "Parameters used" lines of the description passed to create_process
description(op, l) ==
    CASE op = "process_caking" ->
           [azimuthal_range |-> <<F4(l.azi_min), F4(l.azi_max)>>,
            azimuthal_points |-> Str(l.pts_azi),
            radial_range |-> <<F4(l.radial_min), F4(l.radial_max)>>,
            radial_points |-> Str(l.pts_rad)]
      [] op = "process_radial_average" ->
           [azimuthal_range |-> <<F4(l.angle_min), F4(l.angle_max)>>,
            radial_range |-> <<F4(l.r_min), F4(l.r_max)>>,
            radial_points |-> Str(l.pts)]
      [] op = "process_azimuthal_average" ->
           [azimuthal_range |-> <<F4(l.angle_min), F4(l.angle_max)>>,
            azimuthal_points |-> Str(l.npt_azi),
            radial_range |-> <<F4(l.r_min), F4(l.r_max)>>,
            radial_points |-> Str(l.npt_rad)]
      [] op = "process_horizontal_integration" ->
           [horizontal_range |-> <<F4(l.qx_min), F4(l.qx_max)>>,
            vertical_range |-> <<F4(l.qx_min), F4(l.qx_max)>>]
      [] op = "process_q_space" -> <<>>
      [] OTHER ->
           [horizontal_range |-> <<F4(l.qx_min), F4(l.qx_max)>>,
            vertical_range |-> <<F4(l.qx_min), F4(l.qx_max)>>]

\* the text the description holds for the parameter n
description_entry(desc, n) ==
    CASE n \in {"azi_min", "angle_min"} -> desc.azimuthal_range[1]
      [] n \in {"azi_max", "angle_max"} -> desc.azimuthal_range[2]
      [] n \in {"radial_min", "r_min"} -> desc.radial_range[1]
      [] n \in {"radial_max", "r_max"} -> desc.radial_range[2]
      [] n \in {"pts_azi", "npt_azi"} -> desc.azimuthal_points
      [] n \in {"pts_rad", "npt_rad", "pts"} -> desc.radial_points
      [] n = "qx_min" -> desc.horizontal_range[1]
      [] n = "qx_max" -> desc.horizontal_range[2]
      [] n = "qy_min" -> desc.vertical_range[1]
      [] OTHER -> desc.vertical_range[2]

\* the format specification of the parameter n in the description
formatted(n, v) ==
    IF n \in {"pts_azi", "npt_azi", "pts_rad", "npt_rad", "pts"} THEN Str(v) ELSE F4(v)

\* the dict "defaults" of op for a session of axes qp, qz
defaults_of(op, qp, qz) ==
    CASE op = "process_caking" -> caking_defaults(qp, qz)
      [] op = "process_radial_average" -> radial_defaults(qp, qz)
      [] op = "process_azimuthal_average" ->
           azimuthal_defaults([r_min |-> Sqrt(azimuthal_default_r_min_sq(qp, qz))],
                              qp, qz)
      [] op = "process_q_space" -> <<>>
      [] OTHER -> strip_defaults(qp, qz)

\* the assignments to and the calls on smi_data in the loop body, in order,
\* up to the geometry-service call; process_q_space reads smi_data.img_st and
\* makes no such call
session_calls(op) ==
    CASE op = "process_q_space" -> <<"masks", "calculate_integrator_trans">>
      [] op = "process_caking" -> <<"caking">>
      [] op = "process_radial_average" ->
           <<"masks", "calculate_integrator_trans", "radial_averaging">>
      [] op = "process_azimuthal_average" ->
           <<"masks", "calculate_integrator_trans", "azimuthal_averaging">>
      [] op = "process_horizontal_integration" ->
           <<"masks", "calculate_integrator_trans", "horizontal_integration">>
      [] OTHER ->
           <<"masks", "calculate_integrator_trans", "vertical_integration">>

\* the reduction methods of the geometry service
ServiceCalls == {"caking", "radial_averaging", "azimuthal_averaging",
                 "horizontal_integration", "vertical_integration"}

(***************************************************************************)
(* The reduction operations of NexusFile.  The geometry service            *)
(* (smi_analysis) is opaque: a call yields a result of the rank the        *)
(* operation produces.  The operations are taken with display=False.       *)
(***************************************************************************)
ReductionOps == {"process_q_space", "process_caking", "process_radial_average",
                 "process_azimuthal_average", "process_horizontal_integration",
                 "process_vertical_integration"}

geometry_result(op) ==
    IF op \in {"process_q_space", "process_caking"} THEN Result2D ELSE Result1D

parameter_symbol_of(op) ==
    IF op = "process_azimuthal_average" THEN "Chi" ELSE "Q"

process_name_of(op) ==
    CASE op = "process_q_space" -> "Conversion to q-space"
      [] op = "process_caking" -> "Data caking"
      [] op = "process_radial_average" -> "Radial averaging"
      [] op = "process_azimuthal_average" -> "Azimuthal averaging"
      [] op = "process_horizontal_integration" -> "Horizontal integration"
      [] op = "process_vertical_integration" -> "Vertical integration"
      [] OTHER -> "Absolute Intensity"

\* a call that names none of the range parameters: each is None
DefaultArgs(op) == [n \in ParamsOf(op) |-> None]

\* NexusFile._stitching: the three lists are reset on entering the loop body and
\* the first statement after that reads the undefined name nx_file
stitching(m) ==
    IF Len(m.file_paths) = 0
    THEN [m |-> m, err |-> "none"]
    ELSE [m |-> [m EXCEPT !.dicts_parameters = Attr(<<>>),
                          !.list_smi_data = Attr(<<>>),
                          !.intensities_data = Attr(<<>>)],
          err |-> "NameError"]

\* the body of "for index, smi_data in enumerate(self.list_smi_data)" up to
\* the call of the geometry service.  Every operation but process_caking first
\* stores the mask of the input group in the session and hands the detector
\* rotation of self.dicts_parameters[index] to calculate_integrator_trans;
\* then the parameters that were None in the call take their defaults and the
\* geometry service is called.  calls: the assignments to and the calls on the
\* session that were made; passed: the keyword arguments of the service call
reduce_step(c, m, index, op, flags, locals) ==
    LET smi_data == m.list_smi_data.v[index]
        read == extract_from_h5(c, m.input_data_group, "mask")
        primed == [smi_data EXCEPT !.masks = read.v]
        l == locals_after_defaults(op, flags, locals, smi_data.qp, smi_data.qz)
        stop(e, smi, calls) ==
            [err |-> e, smi |-> smi, locals |-> locals, calls |-> calls,
             reached |-> FALSE]
    IN IF op = "process_caking"
       THEN [err |-> "none", smi |-> smi_data, locals |-> l,
             calls |-> session_calls(op), reached |-> TRUE]
       ELSE IF read.err # "none" THEN stop(read.err, smi_data, <<>>)
       ELSE IF ~m.dicts_parameters.set
       THEN stop("AttributeError", primed, <<"masks">>)
       ELSE IF index > Len(m.dicts_parameters.v)
       THEN stop("IndexError", primed, <<"masks">>)
       ELSE [err |-> "none", smi |-> primed, locals |-> l,
             calls |-> session_calls(op), reached |-> TRUE]

\* "if save:": the result is saved with the mask the session holds, then its
\* process group is written with the parameters of the file in its description
persist_step(c, smi_data, op, l, group_name) ==
    LET res == geometry_result(op)
        described(saved) ==
            IF saved.err # "none"
            THEN [c |-> saved.c, err |-> saved.err, steps |-> <<"save_data">>,
                  written |-> FALSE]
            ELSE [c |-> create_process(saved.c, process_group_path(group_name),
                                       process_name_of(op), description(op, l)),
                  err |-> "none", steps |-> <<"save_data", "create_process">>,
                  written |-> TRUE]
    IN described(save_data(c, parameter_symbol_of(op), res.P, group_name, res.I,
                           smi_data.masks))

\* the steps made for the file at index, as events of the loop
events_of(index, steps) ==
    [j \in 1..Len(steps) |-> [file |-> index, step |-> steps[j]]]

\* what a loop over the files has done so far.  locals: the parameters as the
\* last body left them; passed[k]: the arguments of the service call for the
\* file k; recorded[k]: the description written for the file k
LoopStart(cs, m, args) ==
    [cs |-> cs, m |-> m, err |-> "none", locals |-> args, events |-> <<>>,
     calls |-> <<>>, passed |-> <<>>, recorded |-> <<>>]

\* one pass of the loop body on the state run
reduce_one(run, index, op, flags, save, group_name) ==
    LET p == run.m.nx_files[index]
        saved(reduced, l, w) ==
            [reduced EXCEPT
               !.cs[p] = w.c,
               !.err = w.err,
               !.events = reduced.events \o events_of(index, w.steps),
               !.recorded = IF w.written
                            THEN Put(reduced.recorded, index, description(op, l))
                            ELSE reduced.recorded]
        reduced(r) ==
            [run EXCEPT
               !.m.list_smi_data.v[index] = r.smi,
               !.err = r.err,
               !.locals = r.locals,
               !.events = run.events \o events_of(index, r.calls),
               !.calls = Put(run.calls, index, r.calls),
               !.passed = IF r.reached
                          THEN Put(run.passed, index, service_call(op, r.locals))
                          ELSE run.passed]
        body(r) ==
            IF r.err # "none" \/ ~save
            THEN reduced(r)
            ELSE saved(reduced(r), r.locals,
                       persist_step(run.cs[p], r.smi, op, r.locals, group_name))
    IN body(reduce_step(run.cs[p], run.m, index, op, flags, run.locals))

\* the loop over self.list_smi_data from the given index on: it ends at the
\* first exception, which no handler catches
reduce_from(cs, m, op, args, save, group_name, index) ==
    LET n == Len(m.list_smi_data.v)
        flags == none_flags(op, args)
        run[k \in (index - 1)..n] ==
            IF k = index - 1 THEN LoopStart(cs, m, args)
            ELSE IF run[k - 1].err # "none" THEN run[k - 1]
            ELSE reduce_one(run[k - 1], k, op, flags, save, group_name)
    IN IF n < index THEN LoopStart(cs, m, args) ELSE run[n]

\* a reduction operation, from its first statement to its return or exception
process_reduction(cs, m, op, args, save, group_name) ==
    LET m0 == [m EXCEPT !.init_plot = TRUE]
    IN IF ~m0.list_smi_data.set
       THEN [LoopStart(cs, m0, args) EXCEPT !.err = "AttributeError"]
       ELSE LET st == IF Len(m0.file_paths) # Len(m0.list_smi_data.v)
                      THEN stitching(m0)
                      ELSE [m |-> m0, err |-> "none"]
            IN IF st.err # "none"
               THEN [LoopStart(cs, st.m, args) EXCEPT !.err = st.err]
               ELSE reduce_from(cs, st.m, op, args, save, group_name, 1)

(***************************************************************************)
(* NexusFile.process_absolute_intensity, taken with display=False.  A      *)
(* frame is an array of rank 2; the sums over the regions of interest and  *)
(* the scaling are opaque, the pixels that are summed are computed.        *)
(***************************************************************************)
AbsParams == {"roi_size_x", "roi_size_y", "sample_thickness"}

\* a parameter the call does not mention
Unsupplied == [kind |-> "unsupplied", x |-> 0]

\* the defaults in the signature of process_absolute_intensity
signature_default(n) ==
    CASE n = "roi_size_x" -> Num(30)
      [] n = "roi_size_y" -> Num(30)
      [] OTHER -> Num(10 ^ 9)

\* the parameters as bound when the method is entered
bound_arguments(given) ==
    [n \in AbsParams |-> IF given[n] = Unsupplied THEN signature_default(n) ELSE given[n]]

\* db_path: None, or the path of a direct-beam file that h5py.File opens
NoDbPath == [none |-> TRUE, path |-> "None", h5obj |-> <<>>]
DbPath(path, h5obj) == [none |-> FALSE, path |-> path, h5obj |-> h5obj]

\* the dict "defaults" of process_absolute_intensity for one file
abs_defaults(nx_file) ==
    [roi_size_x |-> Num(extract_from_h5(nx_file, N_SOURCE, "beam_size_x").v.val),
     roi_size_y |-> Num(extract_from_h5(nx_file, N_SOURCE, "beam_size_y").v.val),
     sample_thickness |-> Num(extract_from_h5(nx_file, N_SAMPLE, "thickness").v.val)]

\* the indices a[start:stop] selects on an axis of length n
slice_bound(i, n) ==
    IF i < 0 THEN (IF i + n < 0 THEN 0 ELSE i + n)
    ELSE IF i > n THEN n ELSE i

slice(start, stop, n) ==
    {i \in 0..(n - 1) : slice_bound(start, n) <= i /\ i < slice_bound(stop, n)}

\* the pixels <<row, column>> of frame[cy - ry:cy + ry, cx - rx:cx + rx]
roi_pixels(frame, cx, cy, rx, ry) ==
    slice(cy - ry, cy + ry, frame.shape[1]) \X slice(cx - rx, cx + rx, frame.shape[2])

\* the "Parameters used" of the description passed to create_process
abs_description(l, db_path) ==
    [path_of_the_file |-> Str(db_path.path),
     sample_thickness |-> F4(l.sample_thickness),
     roi_size |-> <<[fmt |-> ".2f", v |-> l.roi_size_x],
                    [fmt |-> ".2f", v |-> l.roi_size_y]>>]

\* what the loop over self.nx_files has done so far.  used[k]: the three
\* parameters after the defaults for the file k; roi[k], roi_db[k]: the pixels
\* summed in the frame of the file k and in the direct-beam frame
AbsStart(cs, m, args) ==
    [cs |-> cs, m |-> m, err |-> "none", locals |-> args, used |-> <<>>,
     roi |-> <<>>, roi_db |-> <<>>]

\* the first error among reads made in order, "none" when each succeeds
first_error(reads) ==
    IF \A i \in DOMAIN reads : reads[i].err = "none" THEN "none"
    ELSE reads[CHOOSE i \in DOMAIN reads :
                   /\ reads[i].err # "none"
                   /\ \A j \in 1..(i - 1) : reads[j].err = "none"].err

\* the body of "for index, nx_file in enumerate(self.nx_files)"
absolute_intensity_one(run, index, db_path, flags, save, group_name) ==
    LET p == run.m.nx_files[index]
        nx_file == run.cs[p]
        reads == <<extract_from_h5(nx_file, N_SOURCE, "beam_size_x"),
                   extract_from_h5(nx_file, N_SOURCE, "beam_size_y"),
                   extract_from_h5(nx_file, N_SAMPLE, "thickness")>>
        l == resolved(flags, run.locals, abs_defaults(nx_file))
        dict == run.m.dicts_parameters.v[index]
        positions == dict["R raw data"][1]
        raw_data == dict["I raw data"][1]
        time == extract_from_h5(nx_file, N_COLLECTION, "exposition_time")
        h5obj == db_path.h5obj
        db_reads == <<extract_from_h5(h5obj, N_DATA, "I"),
                      extract_from_h5(h5obj, N_DETECTOR, "beam_center_x"),
                      extract_from_h5(h5obj, N_DETECTOR, "beam_center_y"),
                      extract_from_h5(h5obj, N_COLLECTION, "exposition_time")>>
        abs_data == Array(raw_data.shape, "abs")
        defaulted == [run EXCEPT !.locals = l, !.used = Put(run.used, index, l)]
        summed == [defaulted EXCEPT
                     !.roi = Put(run.roi, index,
                                 roi_pixels(raw_data, dict["beam center"][1],
                                            dict["beam center"][2],
                                            l.roi_size_x.x, l.roi_size_y.x))]
        scaled == [summed EXCEPT
                     !.roi_db = Put(run.roi_db, index,
                                    roi_pixels(db_reads[1].v, db_reads[2].v.val,
                                               db_reads[3].v.val,
                                               l.roi_size_x.x, l.roi_size_y.x))]
        saved == save_data(nx_file, "Q", positions, group_name, abs_data,
                           run.m.list_smi_data.v[index].masks)
    IN IF first_error(reads) # "none"
       THEN [run EXCEPT !.err = first_error(reads)]
       ELSE IF ~run.m.dicts_parameters.set
       THEN [defaulted EXCEPT !.err = "AttributeError"]
       ELSE IF index > Len(run.m.dicts_parameters.v)
       THEN [defaulted EXCEPT !.err = "IndexError"]
       ELSE IF time.err # "none"
       THEN [defaulted EXCEPT !.err = time.err]
       ELSE IF first_error(db_reads) # "none"
       THEN [summed EXCEPT !.err = first_error(db_reads)]
       ELSE IF ~save THEN scaled
       ELSE IF ~run.m.list_smi_data.set
       THEN [scaled EXCEPT !.err = "AttributeError"]
       ELSE IF index > Len(run.m.list_smi_data.v)
       THEN [scaled EXCEPT !.err = "IndexError"]
       ELSE IF saved.err # "none"
       THEN [scaled EXCEPT !.cs[p] = saved.c, !.err = saved.err]
       ELSE [scaled EXCEPT
               !.cs[p] = create_process(saved.c, process_group_path(group_name),
                                        "Absolute Intensity",
                                        abs_description(l, db_path))]

\* the loop over the files: it ends at the first exception
absolute_intensity_loop(cs, m, db_path, args, save, group_name) ==
    LET n == Len(m.nx_files)
        flags == [a \in AbsParams |-> args[a] = None]
        run[k \in 0..n] ==
            IF k = 0 THEN AbsStart(cs, m, args)
            ELSE IF run[k - 1].err # "none" THEN run[k - 1]
            ELSE absolute_intensity_one(run[k - 1], k, db_path, flags, save,
                                        group_name)
    IN run[n]

\* variant: the loop over the files is entered whether or not a direct-beam
\* file was given
process_absolute_intensity_no_guard(cs, m, db_path, args, save, group_name) ==
    absolute_intensity_loop(cs, [m EXCEPT !.init_plot = TRUE], db_path, args, save,
                            group_name)

\* process_absolute_intensity: nothing to do without a direct-beam file; with
\* one, the loop over the files is entered
process_absolute_intensity(cs, m, db_path, args, save, group_name) ==
    IF db_path.none
    THEN AbsStart(cs, m, args)
    ELSE absolute_intensity_loop(cs, [m EXCEPT !.init_plot = TRUE], db_path, args,
                                 save, group_name)

\* NexusFile.process_concatenate.  group_names is a list of group names, taken
\* as they are written, or None (the default of the signature)
N_DATA_CONCAT == <<"D", "A", "T", "A", "_", "C", "O", "N", "C", "A", "T">>
N_PROCESS_CONCAT == <<"P", "R", "O", "C", "E", "S", "S", "_", "C", "O", "N", "C", "A", "T">>

NoGroups == [none |-> TRUE, v |-> <<>>]
Groups(l) == [none |-> FALSE, v |-> l]

\* np.array(list(a) + list(b)) for two one-dimensional arrays
concatenated(a, b) ==
    Array(<<a.shape[1] + b.shape[1]>>,
          IF a.shape[1] = 0 THEN b.val ELSE a.val \o "+" \o b.val)

\* the inner loop over group_names for one file: q_list and i_list
concatenate_groups(nxfile, group_names) ==
    LET acc[k \in 0..Len(group_names)] ==
            IF k = 0
            THEN [err |-> "none", q |-> Array(<<0>>, ""), i |-> Array(<<0>>, "")]
            ELSE IF acc[k - 1].err # "none" THEN acc[k - 1]
            ELSE LET group == group_names[k]
                     bad == [acc[k - 1] EXCEPT !.err = "Exception"]
                 IN IF ~h5_has_dataset(nxfile, group, "I") THEN bad
                    ELSE IF ndim(extract_from_h5(nxfile, group, "I").v) # 1 THEN bad
                    ELSE IF ~h5_has_dataset(nxfile, group, "Q") THEN bad
                    ELSE IF ndim(extract_from_h5(nxfile, group, "Q").v) # 1 THEN bad
                    ELSE [err |-> "none",
                          q |-> concatenated(acc[k - 1].q,
                                             extract_from_h5(nxfile, group, "Q").v),
                          i |-> concatenated(acc[k - 1].i,
                                             extract_from_h5(nxfile, group, "I").v)]
    IN acc[Len(group_names)]

\* the body of the loop over self.nx_files for the file at index
concatenate_one(c, m, index, group_names) ==
    LET lists == concatenate_groups(c, group_names.v)
        saved == save_data(c, "Q", lists.q, N_DATA_CONCAT, lists.i,
                           m.list_smi_data.v[index].masks)
    IN IF group_names.none THEN Raise(c, "TypeError")
       ELSE IF lists.err # "none" THEN Raise(c, lists.err)
       ELSE IF ~m.list_smi_data.set THEN Raise(c, "AttributeError")
       ELSE IF index > Len(m.list_smi_data.v) THEN Raise(c, "IndexError")
       ELSE IF saved.err # "none" THEN saved
       ELSE Ok(create_process(saved.c, N_PROCESS_CONCAT, "Data concatenation",
                              "Concatenates all the intensity and scattering vector selected"))

process_concatenate(cs, m, group_names) ==
    LET n == Len(m.nx_files)
        run[k \in 0..n] ==
            IF k = 0 THEN [cs |-> cs, err |-> "none"]
            ELSE IF run[k - 1].err # "none" THEN run[k - 1]
            ELSE LET p == m.nx_files[k]
                     r == concatenate_one(run[k - 1].cs[p], m, k, group_names)
                 IN [cs |-> [run[k - 1].cs EXCEPT ![p] = r.c], err |-> r.err]
    IN run[n]

(***************************************************************************)
(* The state machine: the calls a client makes on the manager and on the   *)
(* containers it hands out (get_file).                                     *)
(***************************************************************************)
NoResult == [P |-> NoneValue, I |-> NoneValue]
NoReturn == [err |-> "none", param |-> <<>>, value |-> <<>>]

Called(op, path, group_name, sym, res, save, err, ret) ==
    [op |-> op, path |-> path, group_name |-> group_name, sym |-> sym, res |-> res,
     save |-> save, err |-> err, ret |-> ret, pre |-> containers]

CalcIdle == [fn |-> "none"]

\* the last call of a session that starts from the file start
NoCall(start) ==
    [op |-> "init", path |-> 0, group_name |-> <<>>, sym |-> "",
     res |-> NoResult, save |-> FALSE, err |-> "none", ret |-> NoReturn,
     pre |-> [p \in Paths |-> start]]

\* NexusFile(h5_paths) on files as generate_nexus leaves them, under names
\* of their own or under one name
Init ==
    /\ containers = [p \in Paths |-> InitContainer]
    /\ \E h5_paths \in {AllPaths, SameNamePaths} : mgr = NexusFile_init(h5_paths)
    /\ nops = 0
    /\ last = NoCall(InitContainer)
    /\ calc = CalcIdle

\* save_data(nx_obj.get_file()[i], ...)
SaveData(p, sym, res, group_name) ==
    /\ nops < MaxOps
    /\ \E r \in {save_data(containers[p], sym, res.P, group_name, res.I, MaskArray)} :
          /\ containers' = [containers EXCEPT ![p] = r.c]
          /\ last' = Called("save_data", p, group_name, sym, res, TRUE, r.err, NoReturn)
    /\ nops' = nops + 1
    /\ UNCHANGED <<mgr, calc>>

ProcessDeleteData(group_name) ==
    /\ nops < MaxOps
    /\ containers' = process_delete_data(containers, mgr, group_name)
    /\ last' = Called("process_delete_data", 0, group_name, "", NoResult, FALSE,
                      "none", NoReturn)
    /\ nops' = nops + 1
    /\ UNCHANGED <<mgr, calc>>

GetRawData(group_name) ==
    /\ nops < MaxOps
    /\ \E ret \in {get_raw_data(containers, mgr, group_name)} :
          last' = Called("get_raw_data", 0, group_name, "", NoResult, FALSE,
                         ret.err, ret)
    /\ nops' = nops + 1
    /\ UNCHANGED <<containers, mgr, calc>>

\* nx_obj.<op>(save=save, group_name=group_name), the range parameters left
\* to their defaults
ProcessReduction(op, save, group_name) ==
    /\ nops < MaxOps
    /\ \E r \in {process_reduction(containers, mgr, op, DefaultArgs(op), save,
                                   group_name)} :
          /\ containers' = r.cs
          /\ mgr' = r.m
          /\ last' = Called(op, 0, group_name, parameter_symbol_of(op),
                            geometry_result(op), save, r.err, NoReturn)
    /\ nops' = nops + 1
    /\ UNCHANGED calc

\* the direct-beam file of a session: a file as generate_nexus leaves it
DirectBeamFile == DbPath("db.h5", InitContainer)

\* nx_obj.process_absolute_intensity(db_path, group_name, save=save)
ProcessAbsoluteIntensity(db_given, save, group_name) ==
    /\ nops < MaxOps
    /\ \E r \in {process_absolute_intensity(
                     containers, mgr, IF db_given THEN DirectBeamFile ELSE NoDbPath,
                     bound_arguments([n \in AbsParams |-> Unsupplied]), save,
                     group_name)} :
          /\ containers' = r.cs
          /\ mgr' = r.m
          /\ last' = Called("process_absolute_intensity", 0, group_name, "Q",
                            Result2D, save, r.err, NoReturn)
          /\ calc' = [fn |-> "process_absolute_intensity",
                      db_path |-> IF db_given THEN "given" ELSE "None",
                      m |-> mgr, used |-> r.used]
    /\ nops' = nops + 1

\* nx_obj.process_concatenate(group_names)
ProcessConcatenate(group_names) ==
    /\ nops < MaxOps
    /\ \E r \in {process_concatenate(containers, mgr, group_names)} :
          /\ containers' = r.cs
          /\ last' = Called("process_concatenate", 0, N_DATA_CONCAT, "Q", NoResult,
                            TRUE, r.err, NoReturn)
    /\ nops' = nops + 1
    /\ UNCHANGED <<mgr, calc>>

\* the values of group_names: the default, no group, a saved result once or
\* twice, the raw frame
ConcatenateInputs ==
    {NoGroups, Groups(<<>>), Groups(<<N_DATA_X>>), Groups(<<N_DATA_X, N_DATA_X>>),
     Groups(<<N_DATA>>)}

\* the group name of a process_* call
ProcessGroupNames == {N_DATA_X}

Next ==
    \/ \E p \in Paths, in \in SaveInputs, g \in GroupNameInputs :
           SaveData(p, in[1], in[2], g)
    \/ \E g \in GroupNameInputs : ProcessDeleteData(g)
    \/ \E g \in GroupNameInputs : GetRawData(g)
    \/ \E op \in ReductionOps, save \in BOOLEAN, g \in ProcessGroupNames :
           ProcessReduction(op, save, g)
    \/ \E db_given \in BOOLEAN, save \in BOOLEAN, g \in ProcessGroupNames :
           ProcessAbsoluteIntensity(db_given, save, g)
    \/ \E group_names \in ConcatenateInputs : ProcessConcatenate(group_names)

Spec == Init /\ [][Next]_vars

(***************************************************************************)
(* extract_smi_param on one container (specification SpecExtract).         *)
(***************************************************************************)
\* the raw-data group of a container when it is opened: as generate_nexus
\* leaves it, holding the frame, or after an azimuthal result was saved in
\* place of the frame (Q renamed to Chi)
RawKinds == {"generated", "framed", "reduced"}

RawGroup(kind) ==
    CASE kind = "generated" -> InitContainer
      [] kind = "framed" -> FramedContainer
      [] OTHER -> save_data(FramedContainer, "Chi", Result1D.P, N_DATA, Result1D.I,
                            MaskArray).c

InitExtract ==
    /\ containers = [p \in Paths |-> InitContainer]
    /\ mgr = NexusFile_init(AllPaths)
    /\ nops = 0
    /\ last = NoCall(InitContainer)
    /\ \E kind \in RawKinds, name \in DetectorNames,
          yaw \in AngleValues, pitch \in AngleValues, roll \in AngleValues,
          ok \in BOOLEAN :
           calc = [fn |-> "none",
                   h5obj |-> InstrumentedContainer(RawGroup(kind), name, yaw, pitch,
                                                    roll),
                   inline_flags_ok |-> ok,
                   out |-> [err |-> "none", dict |-> <<>>]]

\* extract_smi_param(nx_file, self.input_data_group)
ExtractSmiParam ==
    /\ calc.fn = "none"
    /\ calc' = [calc EXCEPT !.fn = "extract_smi_param",
                            !.out = extract_smi_param(calc.h5obj, mgr.input_data_group,
                                                      calc.inline_flags_ok)]
    /\ UNCHANGED <<containers, mgr, nops, last>>

NextExtract == ExtractSmiParam

SpecExtract == InitExtract /\ [][NextExtract]_vars

(***************************************************************************)
(* The reduction operations called with some of their range parameters     *)
(* (specification SpecReduce), on the manager NexusFile(paths) constructs. *)
(***************************************************************************)
\* the value a caller supplies explicitly
Explicit == Num(7)

\* NexusFile(h5_paths) and the call to make: calc holds the operation, its
\* range parameters and, once the call is made, what its loop did
InitReduce ==
    /\ \E start \in StartContainers :
          /\ containers = [p \in Paths |-> start]
          /\ last = NoCall(start)
    /\ nops = 0
    /\ mgr = NexusFile_init(AllPaths)
    /\ \E op \in ReductionOps : \E given \in SUBSET ParamsOf(op) :
          calc = [fn |-> "none", op |-> op,
                  args |-> [n \in ParamsOf(op) |->
                               IF n \in given THEN Explicit ELSE None],
                  save |-> FALSE, err |-> "none",
                  passed |-> <<>>, recorded |-> <<>>,
                  calls |-> <<>>, events |-> <<>>]

\* the call made and what its loop did
ranges_done(c, op, save, r) ==
    [c EXCEPT !.fn = op, !.save = save, !.err = r.err,
              !.passed = r.passed, !.recorded = r.recorded,
              !.calls = r.calls, !.events = r.events]

\* nx_obj.process_q_space(save=save, group_name=group_name) with the range parameters
\* calc.args
QSpaceRanges(save, group_name) ==
    /\ calc.fn = "none"
    /\ calc.op = "process_q_space"
    /\ \E r \in {process_reduction(containers, mgr, "process_q_space",
                                   calc.args, save, group_name)} :
          /\ containers' = r.cs
          /\ mgr' = r.m
          /\ last' = Called("process_q_space", 0, group_name,
                            parameter_symbol_of("process_q_space"),
                            geometry_result("process_q_space"), save, r.err, NoReturn)
          /\ calc' = ranges_done(calc, "process_q_space", save, r)
    /\ nops' = nops + 1

\* nx_obj.process_caking(save=save, group_name=group_name) with the range parameters
\* calc.args
CakingRanges(save, group_name) ==
    /\ calc.fn = "none"
    /\ calc.op = "process_caking"
    /\ \E r \in {process_reduction(containers, mgr, "process_caking",
                                   calc.args, save, group_name)} :
          /\ containers' = r.cs
          /\ mgr' = r.m
          /\ last' = Called("process_caking", 0, group_name,
                            parameter_symbol_of("process_caking"),
                            geometry_result("process_caking"), save, r.err, NoReturn)
          /\ calc' = ranges_done(calc, "process_caking", save, r)
    /\ nops' = nops + 1

\* nx_obj.process_radial_average(save=save, group_name=group_name) with the range parameters
\* calc.args
RadialRanges(save, group_name) ==
    /\ calc.fn = "none"
    /\ calc.op = "process_radial_average"
    /\ \E r \in {process_reduction(containers, mgr, "process_radial_average",
                                   calc.args, save, group_name)} :
          /\ containers' = r.cs
          /\ mgr' = r.m
          /\ last' = Called("process_radial_average", 0, group_name,
                            parameter_symbol_of("process_radial_average"),
                            geometry_result("process_radial_average"), save, r.err, NoReturn)
          /\ calc' = ranges_done(calc, "process_radial_average", save, r)
    /\ nops' = nops + 1

\* nx_obj.process_azimuthal_average(save=save, group_name=group_name) with the range parameters
\* calc.args
AzimuthalRanges(save, group_name) ==
    /\ calc.fn = "none"
    /\ calc.op = "process_azimuthal_average"
    /\ \E r \in {process_reduction(containers, mgr, "process_azimuthal_average",
                                   calc.args, save, group_name)} :
          /\ containers' = r.cs
          /\ mgr' = r.m
          /\ last' = Called("process_azimuthal_average", 0, group_name,
                            parameter_symbol_of("process_azimuthal_average"),
                            geometry_result("process_azimuthal_average"), save, r.err, NoReturn)
          /\ calc' = ranges_done(calc, "process_azimuthal_average", save, r)
    /\ nops' = nops + 1

\* nx_obj.process_horizontal_integration(save=save, group_name=group_name) with the range parameters
\* calc.args
HorizontalRanges(save, group_name) ==
    /\ calc.fn = "none"
    /\ calc.op = "process_horizontal_integration"
    /\ \E r \in {process_reduction(containers, mgr, "process_horizontal_integration",
                                   calc.args, save, group_name)} :
          /\ containers' = r.cs
          /\ mgr' = r.m
          /\ last' = Called("process_horizontal_integration", 0, group_name,
                            parameter_symbol_of("process_horizontal_integration"),
                            geometry_result("process_horizontal_integration"), save, r.err, NoReturn)
          /\ calc' = ranges_done(calc, "process_horizontal_integration", save, r)
    /\ nops' = nops + 1

\* nx_obj.process_vertical_integration(save=save, group_name=group_name) with the range parameters
\* calc.args
VerticalRanges(save, group_name) ==
    /\ calc.fn = "none"
    /\ calc.op = "process_vertical_integration"
    /\ \E r \in {process_reduction(containers, mgr, "process_vertical_integration",
                                   calc.args, save, group_name)} :
          /\ containers' = r.cs
          /\ mgr' = r.m
          /\ last' = Called("process_vertical_integration", 0, group_name,
                            parameter_symbol_of("process_vertical_integration"),
                            geometry_result("process_vertical_integration"), save, r.err, NoReturn)
          /\ calc' = ranges_done(calc, "process_vertical_integration", save, r)
    /\ nops' = nops + 1

NextRanges ==
    \/ \E save \in BOOLEAN, g \in ProcessGroupNames : QSpaceRanges(save, g)
    \/ \E save \in BOOLEAN, g \in ProcessGroupNames : CakingRanges(save, g)
    \/ \E save \in BOOLEAN, g \in ProcessGroupNames : RadialRanges(save, g)
    \/ \E save \in BOOLEAN, g \in ProcessGroupNames : AzimuthalRanges(save, g)
    \/ \E save \in BOOLEAN, g \in ProcessGroupNames : HorizontalRanges(save, g)
    \/ \E save \in BOOLEAN, g \in ProcessGroupNames : VerticalRanges(save, g)

SpecReduce == InitReduce /\ [][NextRanges]_vars

(***************************************************************************)
(* create_process called on the containers the manager hands out, between  *)
(* deletions of groups (specification SpecProcess).  calc holds the        *)
(* arguments of the create_process call made last.                         *)
(***************************************************************************)
ProcessPaths == {process_group_path(N_DATA_X), process_group_path(N_DATA)}
ProcessNames == {"Radial averaging", "Azimuthal averaging"}
ProcessDescs == {"r_min = 0", "r_min = 1"}

\* create_process(nx_obj.get_file()[i], group_h5path, process_name, process_desc)
CreateProcess(p, group_h5path, process_name, process_desc) ==
    /\ nops < MaxOps
    /\ containers' = [containers EXCEPT
                         ![p] = create_process(@, group_h5path, process_name,
                                               process_desc)]
    /\ last' = Called("create_process", p, group_h5path, "", NoResult, TRUE,
                      "none", NoReturn)
    /\ calc' = [fn |-> "create_process", process_name |-> process_name,
                process_desc |-> process_desc]
    /\ nops' = nops + 1
    /\ UNCHANGED mgr

\* delete_data(nx_obj.get_file()[i], group_name)
DeleteData(p, group_name) ==
    /\ nops < MaxOps
    /\ containers' = [containers EXCEPT ![p] = delete_data(@, group_name)]
    /\ last' = Called("delete_data", p, group_name, "", NoResult, FALSE,
                      "none", NoReturn)
    /\ nops' = nops + 1
    /\ UNCHANGED <<mgr, calc>>

NextProcess ==
    \/ \E p \in Paths, g \in ProcessPaths, n \in ProcessNames, d \in ProcessDescs :
           CreateProcess(p, g, n, d)
    \/ \E p \in Paths, g \in ProcessPaths : DeleteData(p, g)

SpecProcess == Init /\ [][NextProcess]_vars

(***************************************************************************)
(* The life of a manager (specification SpecSession): construction on a    *)
(* list of paths, add_file, a reduction operation, nexus_close.  A path is *)
(* a str or a pathlib.Path, as the two signatures allow; a handle is named *)
(* by the path it was opened on.  calc keeps the manager before the last   *)
(* call (pre), the exception the call raised (err), the handles still open *)
(* (open), the files on which add_file left a handle that nx_files does    *)
(* not hold (unheld) and the close and repack steps of the call in order   *)
(* (events).  NoFile stands at a path whose file a failed repack removed.  *)
(***************************************************************************)
PathTypes == {"str", "Path"}

\* the lists of distinct files, of at most NFiles entries
PathLists ==
    {l \in UNION {[1..n -> Paths] : n \in 0..NFiles} :
        \A i \in DOMAIN l : \A j \in DOMAIN l : l[i] = l[j] => i = j}

\* the lists a caller passes: every entry of the same type
PathObjLists ==
    {[i \in DOMAIN l |-> PathObj(l[i], l[i], t)] : l \in PathLists, t \in PathTypes}

\* "dict_parameters, intensity_data = extract_smi_param(...)": the unpacking
\* iterates over the keys of the dict returned; with two keys the names are
\* bound to two str and dict_parameters["distance"] fails
unpack_pair(r) ==
    IF r.err # "none" THEN r.err
    ELSE IF Cardinality(DOMAIN r.dict) # 2 THEN "ValueError"
    ELSE "TypeError"

\* a path at which no file exists
NoFile == <<>>

\* NexusFile.add_file.  opened: the files on which h5py.File returned a handle
\* that the call did not append to nx_files
add_file(cs, m, h5_paths, inline_flags_ok) ==
    LET m1 == [m EXCEPT !.file_paths = h5_paths]
    IN IF Len(h5_paths) = 0
       THEN [m |-> m1, err |-> "none", opened |-> {}]
       ELSE IF cs[h5_paths[1].file] = NoFile
       THEN [m |-> m1, err |-> "OSError", opened |-> {}]
       ELSE [m |-> m1,
             err |-> unpack_pair(extract_smi_param(cs[h5_paths[1].file],
                                                   m.input_data_group,
                                                   inline_flags_ok)),
             opened |-> {h5_paths[1].file}]

\* self.file_paths[index] + ".tmp", then repack_hdf5: the copy of /ENTRY to the
\* .tmp file, os.remove of the original, shutil.move of the .tmp file.
\* repack_fails holds the files for which a step fails: the copy, or, with
\* at_move, the move, which leaves no file at the original path
repack_step(cs, m, index, repack_fails, at_move) ==
    IF index > Len(m.file_paths) THEN Raise(cs, "IndexError")
    ELSE IF m.file_paths[index].type = "Path" THEN Raise(cs, "TypeError")
    ELSE IF cs[m.file_paths[index].file] = NoFile THEN Raise(cs, "OSError")
    ELSE IF m.file_paths[index].file \in repack_fails
    THEN Raise(IF at_move THEN [cs EXCEPT ![m.file_paths[index].file] = NoFile]
               ELSE cs,
               "OSError")
    ELSE Ok(cs)

\* NexusFile.nexus_close
nexus_close(cs, m, open, repack_fails, at_move) ==
    LET n == Len(m.nx_files)
        run[k \in 0..n] ==
            IF k = 0
            THEN [cs |-> cs, open |-> open, events |-> <<>>, err |-> "none"]
            ELSE IF run[k - 1].err # "none"
            THEN run[k - 1]
            ELSE LET h == m.nx_files[k]
                     e == repack_step(run[k - 1].cs, m, k, repack_fails, at_move)
                     closed == Append(run[k - 1].events, <<"close", h>>)
                 IN [cs |-> e.c,
                     open |-> run[k - 1].open \ {h},
                     events |-> IF e.err = "none"
                                THEN Append(closed, <<"repack", m.file_paths[k].file>>)
                                ELSE closed,
                     err |-> e.err]
    IN run[n]

InitSession ==
    /\ \E start \in StartContainers :
          /\ containers = [p \in Paths |-> start]
          /\ last = NoCall(start)
    /\ nops = 0
    /\ \E h5_paths \in PathObjLists :
          /\ mgr = NexusFile_init(h5_paths)
          /\ calc = [fn |-> "init", arg |-> h5_paths, pre |-> NexusFile_init(h5_paths),
                     err |-> "none",
                     open |-> {h5_paths[i].file : i \in DOMAIN h5_paths},
                     unheld |-> {},
                     events |-> <<>>]

\* nx_obj.add_file(h5_paths); unheld: the files on which a handle is open that
\* nx_files does not hold.  The handle add_file opened before it raised is
\* referred to by the frame of add_file only: it stays open as long as the
\* caller keeps the exception (kept) and is closed when the exception is dropped
AddFile(h5_paths, inline_flags_ok, kept) ==
    /\ nops < MaxOps
    /\ \E r \in {add_file(containers, mgr, h5_paths, inline_flags_ok)} :
          /\ mgr' = r.m
          /\ calc' = [calc EXCEPT !.fn = "add_file", !.arg = h5_paths, !.pre = mgr,
                                  !.err = r.err, !.events = <<>>,
                                  !.unheld = IF kept THEN calc.unheld \cup r.opened
                                             ELSE calc.unheld]
    /\ nops' = nops + 1
    /\ UNCHANGED <<containers, last>>

\* nx_obj.<op>(save=True, group_name="DATA_X"), the range parameters left to
\* their defaults
SessionReduction(op) ==
    /\ nops < MaxOps
    /\ \E r \in {process_reduction(containers, mgr, op, DefaultArgs(op), TRUE,
                                   N_DATA_X)} :
          /\ containers' = r.cs
          /\ mgr' = r.m
          /\ calc' = [calc EXCEPT !.fn = op, !.arg = <<>>, !.pre = mgr,
                                  !.err = r.err, !.events = <<>>]
    /\ nops' = nops + 1
    /\ UNCHANGED last

\* nx_obj.nexus_close()
NexusClose(repack_fails, at_move) ==
    /\ nops < MaxOps
    /\ \E r \in {nexus_close(containers, mgr, calc.open, repack_fails, at_move)} :
          /\ containers' = r.cs
          /\ calc' = [calc EXCEPT !.fn = "nexus_close", !.arg = repack_fails,
                                  !.pre = mgr, !.err = r.err, !.open = r.open,
                                  !.events = r.events]
    /\ nops' = nops + 1
    /\ UNCHANGED <<mgr, last>>

NextSession ==
    \/ \E h5_paths \in PathObjLists, ok \in BOOLEAN, kept \in BOOLEAN :
           AddFile(h5_paths, ok, kept)
    \/ \E op \in ReductionOps : SessionReduction(op)
    \/ \E repack_fails \in SUBSET Paths, at_move \in BOOLEAN :
           NexusClose(repack_fails, at_move)

SpecSession == InitSession /\ [][NextSession]_vars

(***************************************************************************)
(* The loop of process_absolute_intensity over the files of a manager      *)
(* (specification SpecAbsolute): the region-of-interest sizes and the      *)
(* sample thickness used for each file, and the pixels of the sample frame *)
(* and of the direct-beam frame that are summed.  A frame has FrameSize    *)
(* rows and FrameSize columns.                                             *)
(***************************************************************************)
FrameSize == 3
RoiMax == 2

AbsFrame == Array(<<FrameSize, FrameSize>>, "i0")

\* a file that holds a frame, with the beam size of its source, the thickness
\* of its sample and, when the settings name it, the exposure time
AbsContainer(bx, by, th, timed) ==
    [FramedContainer EXCEPT
        ![N_SOURCE].ds["beam_size_x"] = Scalar(bx),
        ![N_SOURCE].ds["beam_size_y"] = Scalar(by),
        ![N_SAMPLE].ds["thickness"] = Scalar(th),
        ![N_DATA].ds["I"].data = AbsFrame,
        ![N_COLLECTION].ds = IF timed THEN Put(@, "exposition_time", Scalar(1))
                             ELSE @]

\* the direct-beam file: a frame, its beam center and its exposure time
DirectBeamContainer(center) ==
    [AbsContainer(1, 2, 1, TRUE) EXCEPT
        ![N_DETECTOR].ds["beam_center_x"] = Scalar(center[1]),
        ![N_DETECTOR].ds["beam_center_y"] = Scalar(center[2])]

\* the beam centers of the direct-beam frame: on the frame, on its border
DbCenters == {<<1, 1>>, <<0, FrameSize>>}

\* the values a caller can give to a parameter
AbsGiven == {Unsupplied, None} \cup {Num(v) : v \in 1..RoiMax}

\* the values stored in a container
StoredValues == {[bx |-> 1, by |-> 2, th |-> 1], [bx |-> 2, by |-> 1, th |-> 2]}

\* NexusFile(h5_paths) on files that hold a frame, with or without the
\* exposure time; calc holds the parameters of the call to make and the beam
\* center of the direct-beam file
InitAbsolute ==
    /\ nops = 0
    /\ mgr = NexusFile_init(AllPaths)
    /\ \E stored \in [Paths -> StoredValues], timed \in BOOLEAN :
          /\ containers = [p \in Paths |->
                              AbsContainer(stored[p].bx, stored[p].by, stored[p].th,
                                           timed)]
          /\ last = [NoCall(InitContainer) EXCEPT
                        !.pre = [p \in Paths |->
                                    AbsContainer(stored[p].bx, stored[p].by,
                                                 stored[p].th, timed)]]
    /\ \E rx \in AbsGiven, ry \in AbsGiven, th \in {Unsupplied, None},
          center_db \in DbCenters :
          calc = [fn |-> "none",
                  given |-> [roi_size_x |-> rx, roi_size_y |-> ry,
                             sample_thickness |-> th],
                  center_db |-> center_db,
                  err |-> "none",
                  used |-> <<>>, roi |-> <<>>, roi_db |-> <<>>]

\* nx_obj.process_absolute_intensity(db_path, "DATA_X", save=save, ...) with
\* the parameters of calc.given
AbsoluteIntensity(save) ==
    /\ calc.fn = "none"
    /\ \E r \in {process_absolute_intensity(
                     containers, mgr,
                     DbPath("db.h5", DirectBeamContainer(calc.center_db)),
                     bound_arguments(calc.given), save, N_DATA_X)} :
          /\ containers' = r.cs
          /\ mgr' = r.m
          /\ last' = Called("process_absolute_intensity", 0, N_DATA_X, "Q",
                            Result2D, save, r.err, NoReturn)
          /\ calc' = [calc EXCEPT !.fn = "process_absolute_intensity",
                                  !.err = r.err, !.used = r.used,
                                  !.roi = r.roi, !.roi_db = r.roi_db]
    /\ nops' = nops + 1

NextAbsolute == \E save \in BOOLEAN : AbsoluteIntensity(save)

SpecAbsolute == InitAbsolute /\ [][NextAbsolute]_vars

(***************************************************************************)
(* The operations of the manager next to save_data and create_process      *)
(* called on the containers it hands out (specification SpecBatch).        *)
(***************************************************************************)
NextBatch ==
    \/ \E p \in Paths : SaveData(p, "Q", Result1D, N_DATA_X)
    \/ \E p \in Paths :
           CreateProcess(p, process_group_path(N_DATA_X), "Radial averaging",
                         "r_min = 0")
    \/ \E op \in ReductionOps, save \in BOOLEAN, g \in GroupNameInputs :
           ProcessReduction(op, save, g)
    \/ \E db_given \in BOOLEAN, save \in BOOLEAN, g \in ProcessGroupNames :
           ProcessAbsoluteIntensity(db_given, save, g)
    \/ \E g \in GroupNameInputs : ProcessDeleteData(g)
    \/ \E group_names \in ConcatenateInputs : ProcessConcatenate(group_names)

SpecBatch == Init /\ [][NextBatch]_vars

(***************************************************************************)
(* repack_hdf5 on one closed container, step by step (specification        *)
(* SpecRepack).  A file on disk is absent, or holds an /ENTRY subtree that *)
(* is empty, partly written or complete, plus the space deleted groups     *)
(* left unused.  Every step that touches the disk either succeeds or       *)
(* raises; an exception ends the call after the with statement has closed  *)
(* the files.                                                              *)
(***************************************************************************)
MaxFree == 2

Absent == [state |-> "absent", entry |-> <<>>, free |-> 0]
OnDisk(state, entry, free) == [state |-> state, entry |-> entry, free |-> free]

\* the /ENTRY subtrees a container is closed with
DiskEntries ==
    {InitContainer,
     save_data(InitContainer, "Q", Result1D.P, N_DATA_X, Result1D.I, MaskArray).c,
     save_data(InitContainer, "Q", Result2D.P, N_DATA_X, Result2D.I, MaskArray).c}

\* the statements of repack_hdf5 in the order they run
repack_steps_remove_first ==
    <<"remove", "open_src", "create_dest", "copy", "close", "move">>

repack_steps ==
    <<"open_src", "create_dest", "copy", "close", "remove", "move">>

repack_at(c, step) ==
    /\ c.fn = "repack_hdf5"
    /\ c.pc <= Len(repack_steps)
    /\ repack_steps[c.pc] = step

\* an exception: the with statement closes what was opened
repack_raise(c, e) ==
    [c EXCEPT !.fn = "raised", !.err = e, !.src_open = FALSE, !.dest_open = FALSE]

repack_next(c) ==
    [c EXCEPT !.pc = c.pc + 1,
              !.fn = IF c.pc = Len(repack_steps) THEN "returned" ELSE "repack_hdf5"]

InitRepack ==
    /\ containers = [p \in Paths |-> InitContainer]
    /\ mgr = NexusFile_init(AllPaths)
    /\ nops = 0
    /\ last = NoCall(InitContainer)
    /\ \E entry \in DiskEntries, free \in 0..MaxFree,
          stale \in {Absent, OnDisk("partial", InitContainer, 0)} :
           calc = [fn |-> "repack_hdf5", pc |-> 1, err |-> "none",
                   entry0 |-> entry,
                   input_file |-> OnDisk("complete", entry, free),
                   output_file |-> stale,
                   src_open |-> FALSE, dest_open |-> FALSE]

\* h5py.File(input_file, 'r')
OpenSrc(ok) ==
    /\ repack_at(calc, "open_src")
    /\ calc' = IF ok /\ calc.input_file.state # "absent"
               THEN repack_next([calc EXCEPT !.src_open = TRUE])
               ELSE repack_raise(calc, "OSError")
    /\ UNCHANGED <<containers, mgr, nops, last>>

\* h5py.File(output_file, 'w'): creates the file or truncates the one there
CreateDest(ok) ==
    /\ repack_at(calc, "create_dest")
    /\ calc' = IF ok
               THEN repack_next([calc EXCEPT !.dest_open = TRUE,
                                             !.output_file =
                                                 OnDisk("empty", InitContainer, 0)])
               ELSE repack_raise(calc, "OSError")
    /\ UNCHANGED <<containers, mgr, nops, last>>

\* src.copy("/ENTRY", dest)
CopyEntry(ok) ==
    /\ repack_at(calc, "copy")
    /\ calc' = IF ok
               THEN repack_next([calc EXCEPT !.output_file =
                                     OnDisk("complete", calc.input_file.entry, 0)])
               ELSE repack_raise([calc EXCEPT !.output_file =
                                     OnDisk("partial", calc.input_file.entry, 0)],
                                 "OSError")
    /\ UNCHANGED <<containers, mgr, nops, last>>

\* the end of the with statement
CloseFiles ==
    /\ repack_at(calc, "close")
    /\ calc' = repack_next([calc EXCEPT !.src_open = FALSE, !.dest_open = FALSE])
    /\ UNCHANGED <<containers, mgr, nops, last>>

\* os.remove(input_file)
RemoveInput(ok) ==
    /\ repack_at(calc, "remove")
    /\ calc' = IF ok /\ calc.input_file.state # "absent"
               THEN repack_next([calc EXCEPT !.input_file = Absent])
               ELSE repack_raise(calc, "OSError")
    /\ UNCHANGED <<containers, mgr, nops, last>>

\* shutil.move(output_file, input_file)
MoveOutput(ok) ==
    /\ repack_at(calc, "move")
    /\ calc' = IF ok /\ calc.output_file.state # "absent"
               THEN repack_next([calc EXCEPT !.input_file = calc.output_file,
                                             !.output_file = Absent])
               ELSE repack_raise(calc, "OSError")
    /\ UNCHANGED <<containers, mgr, nops, last>>

NextRepack ==
    \/ \E ok \in BOOLEAN : OpenSrc(ok)
    \/ \E ok \in BOOLEAN : CreateDest(ok)
    \/ \E ok \in BOOLEAN : CopyEntry(ok)
    \/ CloseFiles
    \/ \E ok \in BOOLEAN : RemoveInput(ok)
    \/ \E ok \in BOOLEAN : MoveOutput(ok)

SpecRepack == InitRepack /\ [][NextRepack]_vars

(***************************************************************************)
(* The polling worker of GUI_generator (specification SpecPolling): the    *)
(* Start and Stop buttons run start_thread and stop_thread_func on the     *)
(* main thread while the auto_generate threads run their loop.  A worker   *)
(* is at the test of its while loop, at the memory guard, searching,       *)
(* sleeping, converting the file it found, or has left the loop.           *)
(***************************************************************************)
MaxThreads == 3

\* the EDF files search_setting_edf can return
EdfFiles == {"a.edf"}

Worker(pc, file) == [pc |-> pc, file |-> file]

InitPolling ==
    /\ containers = [p \in Paths |-> InitContainer]
    /\ mgr = NexusFile_init(AllPaths)
    /\ nops = 0
    /\ last = NoCall(InitContainer)
    /\ calc = [fn |-> "GUI_generator", activate_thread |-> FALSE, threads |-> <<>>]

\* GUI_generator.start_thread
StartThread ==
    /\ Len(calc.threads) < MaxThreads
    /\ calc' = [calc EXCEPT !.activate_thread = TRUE,
                            !.threads = Append(@, Worker("while", ""))]
    /\ UNCHANGED <<containers, mgr, nops, last>>

\* GUI_generator.stop_thread_func
StopThread ==
    /\ calc.activate_thread
    /\ calc' = [calc EXCEPT !.activate_thread = FALSE]
    /\ UNCHANGED <<containers, mgr, nops, last>>

\* "while self.activate_thread:": the read of the flag
WorkerTest(w) ==
    /\ calc.threads[w].pc = "while"
    /\ calc' = [calc EXCEPT !.threads[w].pc =
                   IF calc.activate_thread THEN "guard" ELSE "done"]
    /\ UNCHANGED <<containers, mgr, nops, last>>

\* the head of the body, after the wait in self.after: the test of the traced
\* memory; over 500 MB the worker leaves the loop
WorkerGuard(w, memory_ok) ==
    /\ calc.threads[w].pc = "guard"
    /\ calc' = [calc EXCEPT !.threads[w].pc = IF memory_ok THEN "search" ELSE "done"]
    /\ UNCHANGED <<containers, mgr, nops, last>>

\* search_setting_edf: no file, and the worker sleeps
WorkerSleep(w) ==
    /\ calc.threads[w].pc = "search"
    /\ calc' = [calc EXCEPT !.threads[w].pc = "sleep"]
    /\ UNCHANGED <<containers, mgr, nops, last>>

\* search_setting_edf: a file, and the worker starts to convert it; or an
\* exception, which ends the thread
WorkerFind(w, file, ok) ==
    /\ calc.threads[w].pc = "search"
    /\ calc' = [calc EXCEPT !.threads[w] =
                   IF ok THEN Worker("convert", file) ELSE Worker("done", "")]
    /\ UNCHANGED <<containers, mgr, nops, last>>

\* the end of time.sleep, "continue"
WorkerWake(w) ==
    /\ calc.threads[w].pc = "sleep"
    /\ calc' = [calc EXCEPT !.threads[w].pc = "while"]
    /\ UNCHANGED <<containers, mgr, nops, last>>

\* the end of the conversion and of the treatment of the file: back to the
\* test of the loop, or out of the thread with the exception re-raised
WorkerConverted(w, ok) ==
    /\ calc.threads[w].pc = "convert"
    /\ calc' = [calc EXCEPT !.threads[w] =
                   Worker(IF ok THEN "while" ELSE "done", "")]
    /\ UNCHANGED <<containers, mgr, nops, last>>

NextPolling ==
    \/ StartThread
    \/ StopThread
    \/ \E w \in 1..Len(calc.threads) : WorkerTest(w)
    \/ \E w \in 1..Len(calc.threads), memory_ok \in BOOLEAN : WorkerGuard(w, memory_ok)
    \/ \E w \in 1..Len(calc.threads) : WorkerSleep(w)
    \/ \E w \in 1..Len(calc.threads), file \in EdfFiles, ok \in BOOLEAN :
           WorkerFind(w, file, ok)
    \/ \E w \in 1..Len(calc.threads) : WorkerWake(w)
    \/ \E w \in 1..Len(calc.threads), ok \in BOOLEAN : WorkerConverted(w, ok)

SpecPolling == InitPolling /\ [][NextPolling]_vars

(***************************************************************************)
(* Properties of the persistence operations (specification Spec).          *)
(* last is the call made last, last.pre the containers before that call.   *)
(***************************************************************************)

\* C1: a process_* operation called with save=True twice in a row with the
\* same parameters leaves every open container as the first call left it, with
\* the result group /ENTRY/<GROUP_NAME> and its companion PROCESS group present.
C1_IdempotentOverwrite ==
    [][(/\ last.op \in ReductionOps
        /\ last.save
        /\ last'.op = last.op
        /\ last'.save
        /\ last'.group_name = last.group_name)
       => (/\ containers' = containers
           /\ \A i \in 1..Len(mgr'.nx_files) :
                  /\ upper(last'.group_name) \in DOMAIN containers'[mgr'.nx_files[i]]
                  /\ process_group_path(upper(last'.group_name))
                         \in DOMAIN containers'[mgr'.nx_files[i]])]_vars

\* C2: when save_data writes to a group other than DATA that already exists,
\* every child dataset and attribute of the group afterwards comes from the
\* fresh copy of /ENTRY/DATA or from the payload of this call, and a 1D result
\* leaves no mask child.
C2_OverwriteNotMerge ==
    (/\ last.op = "save_data"
     /\ upper(last.group_name) # N_DATA
     /\ upper(last.group_name) \in DOMAIN last.pre[last.path])
    => LET g == upper(last.group_name)
           old == last.pre[last.path]
           new == containers[last.path]
           payload == {last.res.P, zeros_like(last.res.P), ZeroVector,
                       last.res.I, zeros_like(last.res.I), MaskArray}
           from_copy(d) == /\ d \in DOMAIN old[N_DATA].ds
                           /\ new[g].ds[d] = old[N_DATA].ds[d]
           from_payload(d) ==
               /\ new[g].ds[d].data \in payload
               /\ \/ new[g].ds[d].attrs = Units("1/nm")
                  \/ \E e \in DOMAIN old[N_DATA].ds :
                         new[g].ds[d].attrs = old[N_DATA].ds[e].attrs
           rewritten(a) == CASE a = "I_axes" -> AttrScalar("Q")
                             [] a = "Q_indices" -> AttrList(<<0>>)
                             [] a = "mask_indices" -> AttrList(<<0>>)
                             [] OTHER -> old[N_DATA].attrs[a]
       IN g \in DOMAIN new =>
            /\ N_DATA \in DOMAIN old
            /\ \A d \in DOMAIN new[g].ds : from_copy(d) \/ from_payload(d)
            /\ \A a \in DOMAIN new[g].attrs :
                   /\ a \in DOMAIN old[N_DATA].attrs
                   /\ \/ new[g].attrs[a] = old[N_DATA].attrs[a]
                      \/ ndim(last.res.I) = 1 /\ new[g].attrs[a] = rewritten(a)
            /\ (last.err = "none" /\ ndim(last.res.I) = 1)
                   => "mask" \notin DOMAIN new[g].ds

\* a 1D result was saved over an earlier 2D result of the same name
C2_Witness ==
    /\ last.op = "save_data"
    /\ last.err = "none"
    /\ upper(last.group_name) # N_DATA
    /\ upper(last.group_name) \in DOMAIN last.pre[last.path]
    /\ last.pre[last.path][upper(last.group_name)].ds["I"].data = Result2D.I
    /\ "mask" \in DOMAIN last.pre[last.path][upper(last.group_name)].ds
    /\ ndim(last.res.I) = 1
    /\ containers[last.path][upper(last.group_name)].ds["I"].data = Result1D.I

\* C3 as stated: after save_data returns, a 1D result has no mask, Qdev, dQl
\* or dQw child and a 2D result has all four, the uncertainty datasets zero.
C3_RankSchemaAsStated ==
    (last.op = "save_data" /\ last.err = "none")
    => LET grp == containers[last.path][upper(last.group_name)]
       IN /\ ndim(last.res.I) = 1
                => \A d \in {"mask", "Qdev", "dQl", "dQw"} : d \notin DOMAIN grp.ds
          /\ ndim(last.res.I) = 2
                => /\ "mask" \in DOMAIN grp.ds
                   /\ \A d \in {"Qdev", "dQl", "dQw"} :
                          /\ d \in DOMAIN grp.ds
                          /\ grp.ds[d].data = zeros_like(last.res.P)

\* C3: after save_data returns, a 1D result has no mask child and has the
\* Qdev, dQl and dQw children filled with zeros of the coordinate's shape; a 2D
\* result has the mask child holding the mask passed and no Qdev, dQl or dQw.
C3_RankSchema ==
    (last.op = "save_data" /\ last.err = "none")
    => LET grp == containers[last.path][upper(last.group_name)]
       IN /\ ndim(last.res.I) = 1
                => /\ "mask" \notin DOMAIN grp.ds
                   /\ \A d \in {"Qdev", "dQl", "dQw"} :
                          /\ d \in DOMAIN grp.ds
                          /\ grp.ds[d].data = zeros_like(last.res.P)
          /\ ndim(last.res.I) = 2
                => /\ "mask" \in DOMAIN grp.ds
                   /\ grp.ds["mask"].data = MaskArray
                   /\ \A d \in {"Qdev", "dQl", "dQw"} : d \notin DOMAIN grp.ds

\* a 2D result was saved and save_data returned
C3_Witness ==
    /\ last.op = "save_data"
    /\ last.err = "none"
    /\ ndim(last.res.I) = 2
    /\ containers[last.path][upper(last.group_name)].ds["I"].data = Result2D.I
    /\ "Qdev" \notin DOMAIN containers[last.path][upper(last.group_name)].ds

\* C4: the layout save_data leaves depends on the rank of the intensity array
\* of the call alone: rank 2 keeps the mask child, removes Qdev, dQl and dQw and
\* leaves the group attributes as copied; rank 1 removes the mask child and
\* rewrites I_axes, Q_indices and mask_indices to "Q", [0], [0].
C4_RankDependentLayout ==
    (last.op = "save_data" /\ last.err = "none")
    => LET grp == containers[last.path][upper(last.group_name)]
           old == last.pre[last.path]
       IN IF ndim(last.res.I) = 2
          THEN /\ "mask" \in DOMAIN grp.ds
               /\ {"Qdev", "dQl", "dQw"} \cap DOMAIN grp.ds = {}
               /\ N_DATA \in DOMAIN old => grp.attrs = old[N_DATA].attrs
          ELSE /\ ndim(last.res.I) = 1
               /\ "mask" \notin DOMAIN grp.ds
               /\ grp.attrs["I_axes"] = AttrScalar("Q")
               /\ grp.attrs["Q_indices"] = AttrList(<<0>>)
               /\ grp.attrs["mask_indices"] = AttrList(<<0>>)

\* a 2D result was saved over an earlier 1D result of the same name
C4_Witness ==
    /\ last.op = "save_data"
    /\ last.err = "none"
    /\ ndim(last.res.I) = 2
    /\ upper(last.group_name) # N_DATA
    /\ upper(last.group_name) \in DOMAIN last.pre[last.path]
    /\ "mask" \notin DOMAIN last.pre[last.path][upper(last.group_name)].ds
    /\ "mask" \in DOMAIN containers[last.path][upper(last.group_name)].ds

\* C5: after process_delete_data(group_name) the group /ENTRY/<UPPER(group_name)>
\* is in none of the open containers and no error was raised, whatever the case
\* of the name and whether or not the group existed.
C5_DeleteThenAbsent ==
    last.op = "process_delete_data"
    => /\ last.err = "none"
       /\ \A i \in 1..Len(mgr.nx_files) :
              upper(last.group_name) \notin DOMAIN containers[mgr.nx_files[i]]

\* a group that existed was deleted under its lower-case name
C5_Witness ==
    /\ last.op = "process_delete_data"
    /\ last.group_name = n_data_x
    /\ \E i \in 1..Len(mgr.nx_files) : N_DATA_X \in DOMAIN last.pre[mgr.nx_files[i]]
    /\ \A i \in 1..Len(mgr.nx_files) : N_DATA_X \notin DOMAIN containers[mgr.nx_files[i]]

\* C6: a save_data call to a group other than DATA leaves /ENTRY/DATA, its
\* children and its attributes as they were; a save_data call to DATA keeps the
\* group and its other attributes, creates no group, and only replaces children.
C6_RawDataPreserved ==
    last.op = "save_data"
    => LET g == upper(last.group_name)
           old == last.pre[last.path]
           new == containers[last.path]
           axis_attrs == {"I_axes", "Q_indices", "mask_indices"}
       IN /\ \A p \in Paths \ {last.path} : containers[p] = last.pre[p]
          /\ N_DATA \in DOMAIN old => N_DATA \in DOMAIN new
          /\ (g # N_DATA /\ N_DATA \notin DOMAIN old) => N_DATA \notin DOMAIN new
          /\ (g # N_DATA /\ N_DATA \in DOMAIN old)
                => new[N_DATA] = old[N_DATA]
          /\ (g = N_DATA /\ N_DATA \in DOMAIN old)
                => /\ DOMAIN new = DOMAIN old
                   /\ \A h \in DOMAIN old \ {N_DATA} : new[h] = old[h]
                   /\ DOMAIN new[N_DATA].attrs = DOMAIN old[N_DATA].attrs
                   /\ \A a \in DOMAIN old[N_DATA].attrs \ axis_attrs :
                          new[N_DATA].attrs[a] = old[N_DATA].attrs[a]
                   /\ \A d \in DOMAIN new[N_DATA].ds :
                          \/ /\ d \in DOMAIN old[N_DATA].ds
                             /\ new[N_DATA].ds[d] = old[N_DATA].ds[d]
                          \/ new[N_DATA].ds[d].data \in
                                 {last.res.P, zeros_like(last.res.P), ZeroVector,
                                  last.res.I, zeros_like(last.res.I), MaskArray}

\* a result was saved into DATA itself, beside a result group that stays
C6_Witness ==
    /\ last.op = "save_data"
    /\ last.err = "none"
    /\ upper(last.group_name) = N_DATA
    /\ N_DATA_X \in DOMAIN last.pre[last.path]
    /\ "I" \in DOMAIN last.pre[last.path][N_DATA].ds
    /\ last.pre[last.path][N_DATA].ds["I"].data # last.res.I
    /\ containers[last.path][N_DATA].ds["I"].data = last.res.I
    /\ containers[last.path][N_DATA].attrs["canSAS_class"] = AttrScalar("SASdata")

\* C7: after save_data(file, symbol, P, G, I, mask) returned, get_raw_data(G)
\* returns for that file, under the name of the file, the array P as parameter
\* and the array I as value.
C7_RoundTrip ==
    (last.op = "save_data" /\ last.err = "none")
    => LET ret == get_raw_data(containers, mgr, last.group_name)
       IN /\ ret.err = "none"
          /\ \A i \in 1..Len(mgr.nx_files) :
                 mgr.nx_files[i] = last.path
                 => LET file_name == mgr.file_paths[i].name
                    IN /\ file_name \in DOMAIN ret.param
                       /\ ret.param[file_name] = last.res.P
                       /\ file_name \in DOMAIN ret.value
                       /\ ret.value[file_name] = last.res.I

(***************************************************************************)
(* Properties of the default radial range (specification SpecReduce).      *)
(***************************************************************************)

\* C8: process_radial_average called without r_min passes to the geometry
\* service, for every file, a radial range that starts at 0 when both axes of
\* the file's session straddle zero, at the smallest magnitude of the
\* non-straddling axis when exactly one axis straddles zero, and at
\* sqrt(min|Qp|^2 + min|Qz|^2) when neither does.
C8_RadialMinimumPolicy ==
    (calc.fn = "process_radial_average" /\ calc.args.r_min = None)
    => \A k \in 1..Len(mgr.nx_files) :
           LET straddles(a) == /\ \E i \in 1..Len(a) : a[i] < 0
                               /\ \E i \in 1..Len(a) : a[i] > 0
               policy_sq(qp, qz) ==
                   IF straddles(qp) /\ straddles(qz) THEN 0
                   ELSE IF straddles(qp) THEN min_abs(qz) * min_abs(qz)
                   ELSE IF straddles(qz) THEN min_abs(qp) * min_abs(qp)
                   ELSE min_abs(qp) * min_abs(qp) + min_abs(qz) * min_abs(qz)
           IN /\ k \in DOMAIN calc.passed
              /\ calc.passed[k].radial_range[1]
                     = Sqrt(policy_sq(mgr.list_smi_data.v[k].qp,
                                      mgr.list_smi_data.v[k].qz))

(***************************************************************************)
(* Properties of extract_smi_param (specification SpecExtract).            *)
(***************************************************************************)

\* C9: for every container that holds the datasets extract_smi_param reads
\* and whose detector name is recognized (Eiger 1M or Eiger 500k), the call
\* returns a record whose detector rotation is [-yaw, pitch, -roll].
C9_RotationAsStated ==
    (/\ calc.fn = "extract_smi_param"
     /\ calc.out.err # "KeyError"
     /\ \/ is_eiger1m(calc.h5obj[N_DETECTOR].ds["name"].data.val)
        \/ is_eiger500k(calc.h5obj[N_DETECTOR].ds["name"].data.val))
    => /\ calc.out.err = "none"
       /\ "detector rotation" \in DOMAIN calc.out.dict
       /\ calc.out.dict["detector rotation"] =
              <<<<0 - calc.h5obj[N_DETECTOR].ds["yaw"].data.val,
                  calc.h5obj[N_DETECTOR].ds["pitch"].data.val,
                  0 - calc.h5obj[N_DETECTOR].ds["roll"].data.val>>>>

\* C10: when the detector name matches none of the known patterns,
\* extract_smi_param ends in an error and returns no record.
C10_UnrecognizedDetectorIsError ==
    (/\ calc.fn = "extract_smi_param"
     /\ ~is_eiger1m(calc.h5obj[N_DETECTOR].ds["name"].data.val)
     /\ ~is_eiger500k(calc.h5obj[N_DETECTOR].ds["name"].data.val))
    => calc.out.err # "none"

(***************************************************************************)
(* Properties of create_process (specification SpecProcess).               *)
(***************************************************************************)

\* C11: after a create_process call, whatever calls preceded it on the same
\* path, the group at the path has the attribute canSAS_class = "SASprocess"
\* alone and exactly the datasets name and description, holding the values of
\* this call; the other groups of the container are as they were.
C11_ProcessGroupReplaced ==
    last.op = "create_process"
    => LET c == containers[last.path]
           grp == c[last.group_name]
       IN /\ last.group_name \in DOMAIN c
          /\ DOMAIN grp.attrs = {"canSAS_class"}
          /\ grp.attrs["canSAS_class"] = AttrScalar("SASprocess")
          /\ DOMAIN grp.ds = {"name", "description"}
          /\ grp.ds["name"].data = Array(<<>>, calc.process_name)
          /\ grp.ds["description"].data = Array(<<>>, calc.process_desc)
          /\ \A h \in DOMAIN c \ {last.group_name} :
                 h \in DOMAIN last.pre[last.path] /\ c[h] = last.pre[last.path][h]

\* a process group was written over one holding another name and description
C11_Witness ==
    /\ last.op = "create_process"
    /\ last.group_name \in DOMAIN last.pre[last.path]
    /\ last.pre[last.path][last.group_name].ds["name"].data
           # Array(<<>>, calc.process_name)
    /\ last.pre[last.path][last.group_name].ds["description"].data
           # Array(<<>>, calc.process_desc)
    /\ containers[last.path][last.group_name].ds["name"].data
           = Array(<<>>, calc.process_name)

(***************************************************************************)
(* Properties of the range parameters (specification SpecReduce).          *)
(***************************************************************************)

\* C12: a reduction operation with range parameters called with save=True
\* writes, for every file, a process description that records the ranges
\* passed to the geometry service for that file: the azimuthal and the radial
\* range of a caking or an average, and for a horizontal or vertical
\* integration [qx_min, qx_max] as horizontal and [qy_min, qy_max] as vertical
\* Q range.
C12_ProvenanceOfRanges ==
    (calc.fn \in RangeOps /\ calc.save)
    => \A k \in 1..Len(mgr.nx_files) :
           /\ k \in DOMAIN calc.passed
           /\ k \in DOMAIN calc.recorded
           /\ LET call == calc.passed[k]
                  desc == calc.recorded[k]
              IN IF calc.fn \in {"process_horizontal_integration",
                                 "process_vertical_integration"}
                 THEN /\ desc.horizontal_range
                             = <<F4(call.q_par_range[1]), F4(call.q_par_range[2])>>
                      /\ desc.vertical_range
                             = <<F4(call.q_per_range[1]), F4(call.q_per_range[2])>>
                 ELSE /\ desc.azimuthal_range
                             = <<F4(call.azimuth_range[1]), F4(call.azimuth_range[2])>>
                      /\ desc.radial_range
                             = <<F4(call.radial_range[1]), F4(call.radial_range[2])>>

\* C18: in each reduction operation, for every file, the session is given the
\* mask of the input group and the detector rotation
\* (calculate_integrator_trans), and both come before the geometry-service
\* call the operation makes for that file.
C18_PrimedBeforeReduction ==
    calc.fn \in ReductionOps
    => \A k \in 1..Len(mgr.nx_files) :
           /\ k \in DOMAIN calc.calls
           /\ \E i \in 1..Len(calc.calls[k]) : calc.calls[k][i] = "masks"
           /\ \E i \in 1..Len(calc.calls[k]) :
                  calc.calls[k][i] = "calculate_integrator_trans"
           /\ \A j \in 1..Len(calc.calls[k]) :
                  calc.calls[k][j] \in ServiceCalls
                  => /\ \E i \in 1..(j - 1) : calc.calls[k][i] = "masks"
                     /\ \E i \in 1..(j - 1) :
                           calc.calls[k][i] = "calculate_integrator_trans"

\* C19: a reduction operation called with some range or point-count
\* parameters given explicitly passes each of them as given to the
\* geometry-service call of every file of the batch; only the parameters left
\* unset get a default.
C19_ExplicitValuesPassed ==
    (calc.fn \in RangeOps /\ \E n \in ParamsOf(calc.op) : calc.args[n] # None)
    => \A k \in 1..Len(mgr.nx_files) :
           /\ k \in DOMAIN calc.passed
           /\ \A n \in ParamsOf(calc.op) :
                  calc.args[n] # None
                  => service_argument(calc.passed[k], n) = calc.args[n]

(***************************************************************************)
(* Properties of the manager (specification Spec).                         *)
(***************************************************************************)

\* C14: after any reduction operation, process_absolute_intensity included,
\* on a manager with N file paths, list_smi_data, intensities_data and
\* dicts_parameters each hold N entries: the operation has stitched the
\* sessions that were missing.
C14_OneSessionPerFile ==
    last.op \in ReductionOps \cup {"process_absolute_intensity"}
    => /\ mgr.list_smi_data.set
       /\ mgr.intensities_data.set
       /\ mgr.dicts_parameters.set
       /\ Len(mgr.list_smi_data.v) = Len(mgr.file_paths)
       /\ Len(mgr.intensities_data.v) = Len(mgr.file_paths)
       /\ Len(mgr.dicts_parameters.v) = Len(mgr.file_paths)

\* C15: once NexusFile(paths) has returned and before any other call, the
\* manager holds one open handle per path in list order, file_paths is the
\* list passed, and one parameter record per path is available.
C15_StateAfterConstruction ==
    last.op = "init"
    => /\ mgr.file_paths \in {AllPaths, SameNamePaths}
       /\ mgr.nx_files = [i \in 1..NFiles |-> mgr.file_paths[i].file]
       /\ mgr.dicts_parameters.set
       /\ Len(mgr.dicts_parameters.v) = NFiles

\* C16: a reduction operation, process_absolute_intensity included, called
\* with save=True on a manager with several files returns without raising,
\* whatever fails for one of the files, and the pass of the loop of
\* process_absolute_intensity is begun for every file, also for those after a
\* file for which it failed.  (Checked under the specification SpecBatch.)
C16_ContinueOnError ==
    (/\ last.op \in ReductionOps \cup {"process_absolute_intensity"}
     /\ last.save
     /\ Len(mgr.nx_files) >= 2
     /\ last.op = "process_absolute_intensity" => calc.db_path = "given")
    => /\ last.err = "none"
       /\ last.op = "process_absolute_intensity"
             => DOMAIN calc.used = 1..Len(mgr.nx_files)

\* C20: process_absolute_intensity called with db_path=None, with save=True or
\* save=False, does not raise and leaves every container and every field of
\* the manager as they were.
C20_NoReferenceNoOp ==
    (last.op = "process_absolute_intensity" /\ calc.db_path = "None")
    => /\ last.err = "none"
       /\ containers = last.pre
       /\ mgr = calc.m

\* a call without reference file has returned, one with save=True
C20_Witness ==
    /\ last.op = "process_absolute_intensity"
    /\ calc.db_path = "None"
    /\ last.save
    /\ Len(mgr.nx_files) = NFiles

(***************************************************************************)
(* Properties of the life of a manager (specification SpecSession).        *)
(***************************************************************************)

\* C13: after add_file(new_paths) on a manager holding the paths P,
\* file_paths is P followed by new_paths, the handles and the session lists
\* of P are where they were, and nx_files[i] is the handle of file_paths[i]
\* for every i.
C13_AddFileAppends ==
    calc.fn = "add_file"
    => /\ mgr.file_paths = calc.pre.file_paths \o calc.arg
       /\ Len(mgr.nx_files) = Len(mgr.file_paths)
       /\ \A i \in 1..Len(mgr.nx_files) : mgr.nx_files[i] = mgr.file_paths[i].file
       /\ \A i \in 1..Len(calc.pre.nx_files) : mgr.nx_files[i] = calc.pre.nx_files[i]
       /\ mgr.dicts_parameters.set = calc.pre.dicts_parameters.set
       /\ mgr.list_smi_data.set = calc.pre.list_smi_data.set

\* C17: after nexus_close, also on a manager whose last operation failed, no
\* handle of the manager is left open, whether or not a repack failed; and
\* unless a repack failed, nexus_close has returned and every container was
\* repacked after its own handle was closed.
C17_CloseAndRepackAll ==
    calc.fn = "nexus_close"
    => /\ \A k \in 1..Len(mgr.nx_files) : mgr.nx_files[k] \notin calc.open
       /\ (\A k \in 1..Len(mgr.nx_files) : mgr.nx_files[k] \notin calc.arg)
          => /\ calc.err = "none"
             /\ \A k \in 1..Len(mgr.nx_files) :
                   \E i \in 1..Len(calc.events) : \E j \in (i + 1)..Len(calc.events) :
                       /\ calc.events[i] = <<"close", mgr.nx_files[k]>>
                       /\ calc.events[j] = <<"repack", mgr.nx_files[k]>>

(***************************************************************************)
(* Properties of the defaults over a batch (specification SpecReduce).     *)
(***************************************************************************)

\* C24: a reduction operation called with save=True on several files, with
\* some parameters left unset, passes to the geometry service for every file k
\* the default computed from the axes of file k's own session for each unset
\* parameter, and file k's process description records that value.
C24_DefaultsPerFile ==
    (/\ calc.fn \in RangeOps
     /\ calc.save
     /\ Len(mgr.nx_files) >= 2
     /\ \E n \in ParamsOf(calc.op) : calc.args[n] = None)
    => \A k \in 1..Len(mgr.nx_files) :
           /\ k \in DOMAIN calc.passed
           /\ k \in DOMAIN calc.recorded
           /\ \A n \in ParamsOf(calc.op) :
                  calc.args[n] = None
                  => LET d == defaults_of(calc.op, mgr.list_smi_data.v[k].qp,
                                          mgr.list_smi_data.v[k].qz)[n]
                     IN /\ service_argument(calc.passed[k], n) = d
                        /\ description_entry(calc.recorded[k], n) = formatted(n, d)

(***************************************************************************)
(* Properties of process_absolute_intensity (specification SpecAbsolute).  *)
(***************************************************************************)

\* C21: a region-of-interest size or a sample thickness the caller does not
\* supply is, for file k, the beam size or the thickness stored in file k's
\* container.
C21_DefaultsFromContainer ==
    calc.fn = "process_absolute_intensity"
    => \A k \in DOMAIN calc.used :
           \A n \in AbsParams :
               calc.given[n] \in {Unsupplied, None}
               => calc.used[k][n] = abs_defaults(last.pre[mgr.nx_files[k]])[n]

\* C25: process_absolute_intensity called with a direct-beam file sums, for
\* every file, in the sample frame and in the direct-beam frame the pixels of
\* the frame with column in [cx - roi_size_x, cx + roi_size_x) and row in
\* [cy - roi_size_y, cy + roi_size_y), wherever the beam center (cx, cy) of the
\* frame is.
C25_RoiExtent ==
    calc.fn = "process_absolute_intensity"
    => \A k \in 1..Len(mgr.nx_files) :
           LET window(c, rx, ry) ==
                   {px \in (0..(FrameSize - 1)) \X (0..(FrameSize - 1)) :
                       /\ c[2] - ry <= px[1] /\ px[1] < c[2] + ry
                       /\ c[1] - rx <= px[2] /\ px[2] < c[1] + rx}
               detector == last.pre[mgr.nx_files[k]][N_DETECTOR].ds
               center == <<detector["beam_center_x"].data.val,
                           detector["beam_center_y"].data.val>>
           IN /\ k \in DOMAIN calc.used
              /\ k \in DOMAIN calc.roi
              /\ k \in DOMAIN calc.roi_db
              /\ calc.roi[k] = window(center, calc.used[k].roi_size_x.x,
                                      calc.used[k].roi_size_y.x)
              /\ calc.roi_db[k] = window(calc.center_db, calc.used[k].roi_size_x.x,
                                         calc.used[k].roi_size_y.x)

(***************************************************************************)
(* Further properties of the persistence operations (specification Spec).  *)
(***************************************************************************)

\* C22: a save_data call that fails has not modified the container: the
\* group that existed under the name is still there, unchanged, and no
\* partially written group exists.
C22_RejectBeforeWriting ==
    (last.op = "save_data" /\ last.err # "none")
    => containers[last.path] = last.pre[last.path]

(***************************************************************************)
(* Properties of the result and process groups (specification SpecBatch).  *)
(***************************************************************************)

\* C26: process_delete_data leaves no process group behind: a container in
\* which every group PROCESS_<suffix> has next to it the result group it
\* describes (DATA_<suffix>, or DATA for PROCESS_DATA) is still such a
\* container after the call.
C26_ProcessHasData ==
    [][last'.op = "process_delete_data"
       => \A p \in Paths :
              LET paired(c) ==
                      \A g \in DOMAIN c :
                          startswith(g, N_PROCESS_PREFIX)
                          => \E d \in DOMAIN c :
                                 /\ ~startswith(d, N_PROCESS_PREFIX)
                                 /\ process_group_path(d) = g
              IN paired(containers[p]) => paired(containers'[p])]_vars

\* C27: after a reduction operation called with save=True and a group name in
\* any letter case, every container of the manager holds the result group at
\* the upper-cased name and the process group at PROCESS_ followed by the same
\* upper-cased suffix, and no other group whose name is that of the process
\* group in another case.
C27_SameNormalization ==
    (last.op \in ReductionOps /\ last.save)
    => \A k \in 1..Len(mgr.nx_files) :
           LET c == containers[mgr.nx_files[k]]
           IN /\ upper(last.group_name) \in DOMAIN c
              /\ process_group_path(upper(last.group_name)) \in DOMAIN c
              /\ \A g \in DOMAIN c :
                     upper(g) = process_group_path(upper(last.group_name))
                     => g = process_group_path(upper(last.group_name))

(***************************************************************************)
(* Properties of the axis attributes (specification Spec).                 *)
(***************************************************************************)

\* C28: after save_data has returned for a 1D result, the dataset the group's
\* I_axes attribute names exists in the group, and the only coordinate dataset
\* of the group is the one named by the parameter symbol.
C28_AxisNamesDataset ==
    (last.op = "save_data" /\ last.err = "none" /\ ndim(last.res.I) = 1)
    => LET g == containers[last.path][upper(last.group_name)]
       IN /\ \A i \in 1..Len(g.attrs["I_axes"].val) :
                 g.attrs["I_axes"].val[i] \in DOMAIN g.ds
          /\ {"Q", "Chi"} \cap DOMAIN g.ds = {last.sym}

(***************************************************************************)
(* Properties of the order of the steps of a batch (specification          *)
(* SpecReduce).                                                            *)
(***************************************************************************)

\* C23: in a batch reduction with save=True, for every file the data group is
\* saved and then the process group is written, both after the
\* geometry-service call for that file and before any step for a later file:
\* no write to the container of a file happens once the processing of the next
\* file has started.
C23_PersistencePerFile ==
    (calc.fn \in ReductionOps /\ calc.save)
    => \A k \in 1..Len(mgr.nx_files) :
           /\ calc.fn \in RangeOps
                 => \E t \in 1..Len(calc.events) :
                        /\ calc.events[t].file = k
                        /\ calc.events[t].step \in ServiceCalls
           /\ \E w \in 1..Len(calc.events) : \E c \in 1..Len(calc.events) :
                  /\ w < c
                  /\ calc.events[w] = [file |-> k, step |-> "save_data"]
                  /\ calc.events[c] = [file |-> k, step |-> "create_process"]
                  /\ \A t \in 1..Len(calc.events) :
                         /\ (calc.events[t].file = k
                                /\ calc.events[t].step \in ServiceCalls) => t < w
                         /\ calc.events[t].file > k => c < t

(***************************************************************************)
(* Properties of repack_hdf5 (specification SpecRepack).                   *)
(***************************************************************************)

\* C30: at every step of repack_hdf5, and whichever step raises, the original
\* path or the temporary path holds a complete copy of the /ENTRY subtree;
\* the original file is absent only when the temporary copy is completely
\* written and closed; and when the call has returned the original path holds
\* the repacked file and the temporary path holds nothing.
C30_RepackKeepsData ==
    LET complete(f) == f.state = "complete" /\ f.entry = calc.entry0
    IN /\ complete(calc.input_file) \/ complete(calc.output_file)
       /\ calc.input_file.state = "absent"
          => (complete(calc.output_file) /\ ~calc.dest_open)
       /\ calc.fn = "returned"
          => /\ complete(calc.input_file)
             /\ calc.input_file.free = 0
             /\ calc.output_file.state = "absent"

\* the original file was removed and the move has not been done: the move is
\* pending or has raised
C30_Witness ==
    /\ calc.fn \in {"repack_hdf5", "raised"}
    /\ calc.input_file.state = "absent"
    /\ calc.entry0 # InitContainer

\* a call on a container with unused space has returned
C30_WitnessReturned ==
    /\ calc.fn = "returned"
    /\ calc.entry0 # InitContainer

(***************************************************************************)
(* Properties of the polling worker (specification SpecPolling).           *)
(***************************************************************************)

\* C29: under every interleaving of Start, Stop and the steps of the workers,
\* at most one auto_generate thread is alive, so that no two workers convert
\* the same file at the same time.
C29_AtMostOneWorker ==
    /\ Cardinality({w \in 1..Len(calc.threads) : calc.threads[w].pc # "done"}) <= 1
    /\ \A v \in 1..Len(calc.threads) : \A w \in 1..Len(calc.threads) :
           (calc.threads[v].pc = "convert" /\ calc.threads[w].pc = "convert"
               /\ calc.threads[v].file = calc.threads[w].file)
           => v = w

====
